---- MODULE Spec2Model ----
(***************************************************************************)
(* Model of torch/csrc/jit/pickler.cpp: the Pickler (encoder) that writes  *)
(* a pickle protocol-2 program into the byte vector stack_, and the        *)
(* Unpickler (decoder), a stack machine over a byte range.                 *)
(*                                                                         *)
(* An IValue is a record [k, b]: k is the tag, b the payload.  For the     *)
(* pointer-carrying tags (String, Tuple, List, IntList, Dict) b holds the  *)
(* address of the object in a memory mem, a sequence of objects [b, e]     *)
(* (b: the characters of a string, e: the elements).  A 64-bit integer is  *)
(* its 8 bytes in little-endian two's complement, a double is its 8 bytes  *)
(* in host (little-endian) order, a tensor is a handle into Tensors.       *)
(***************************************************************************)
EXTENDS Integers, Sequences, FiniteSets, TLC

VARIABLES
  pc,         \* where the caller of the session stands
  pickler,    \* the Pickler
  calls,      \* the addIValue calls made: the IValue, stack_.size() before and after
  unpickler,  \* the Unpickler
  pickler2    \* a second Pickler, fed the same objects at other addresses

vars == <<pc, pickler, calls, unpickler, pickler2>>

------------------------------------------------------------------------------
(* Bounds of the model *)

\* top-level addIValue calls of one session
MaxVals == 2

------------------------------------------------------------------------------
(* Opcodes and names *)

OpCode == [MARK |-> 40, STOP |-> 46, BININT |-> 74, BININT1 |-> 75,
           BININT2 |-> 77, NONE |-> 78, BINPERSID |-> 81, REDUCE |-> 82,
           BINUNICODE |-> 88, EMPTY_LIST |-> 93, APPENDS |-> 101,
           BINGET |-> 104, LONG_BINGET |-> 106, BINPUT |-> 113,
           LONG_BINPUT |-> 114, SETITEMS |-> 117, TUPLE |-> 116,
           EMPTY_DICT |-> 125, EMPTY_TUPLE |-> 41, GLOBAL |-> 99,
           BUILD |-> 98, NEWOBJ |-> 129, PROTO |-> 128, BINFLOAT |-> 71,
           LONG1 |-> 138, NEWTRUE |-> 136, NEWFALSE |-> 137]

PROTOCOL_VERSION == 2

PicklerClass == [TENSOR |-> 0, INTLIST |-> 1]

\* "build_tensor_from_id\n"
tensor_class == <<98, 117, 105, 108, 100, 95, 116, 101, 110, 115, 111, 114,
                  95, 102, 114, 111, 109, 95, 105, 100, 10>>
\* "build_intlist\n"
intlist_class == <<98, 117, 105, 108, 100, 95, 105, 110, 116, 108, 105, 115,
                   116, 10>>
\* "torch.jit._pickle\n"
module_name == <<116, 111, 114, 99, 104, 46, 106, 105, 116, 46, 95, 112, 105,
                 99, 107, 108, 101, 10>>
\* "torch._utils\n_rebuild_tensor_v2\n"
rebuild_tensor_v2 == <<116, 111, 114, 99, 104, 46, 95, 117, 116, 105, 108, 115,
                       10, 95, 114, 101, 98, 117, 105, 108, 100, 95, 116, 101,
                       110, 115, 111, 114, 95, 118, 50, 10>>
\* "collections\nOrderedDict\n"
OrderedDict == <<99, 111, 108, 108, 101, 99, 116, 105, 111, 110, 115, 10, 79,
                 114, 100, 101, 114, 101, 100, 68, 105, 99, 116, 10>>
\* "storage", "cpu", "torch\n", "Storage\n"
str_storage == <<115, 116, 111, 114, 97, 103, 101>>
str_cpu == <<99, 112, 117>>
str_torch_nl == <<116, 111, 114, 99, 104, 10>>
str_Storage_nl == <<83, 116, 111, 114, 97, 103, 101, 10>>

getClassName(cls) ==
  IF cls = PicklerClass.TENSOR THEN tensor_class ELSE intlist_class

getModuleName == module_name

------------------------------------------------------------------------------
(* Fixed-width integers *)

\* the w little-endian bytes of a number 0 <= n < 2^31
LE(n, w) == [i \in 1..w |-> IF i <= 4 THEN (n \div (256 ^ (i - 1))) % 256 ELSE 0]

\* int64_t of a number -2^31 <= n < 2^31: sign-extended little-endian bytes
I64(n) ==
  [i \in 1..8 |-> IF i <= 4 THEN (n \div (256 ^ (i - 1))) % 256
                  ELSE IF n < 0 THEN 255 ELSE 0]

SByte(x) == IF x >= 128 THEN x - 256 ELSE x

\* a < b on int64_t
Less64(a, b) ==
  \E i \in 1..8 :
    /\ \A j \in (i + 1)..8 : a[j] = b[j]
    /\ IF i = 8 THEN SByte(a[8]) < SByte(b[8]) ELSE a[i] < b[i]

Le64(a, b) == a = b \/ Less64(a, b)

\* std::numeric_limits<int8_t> and <int32_t>, as int64_t
INT8_MIN == I64(-128)
INT8_MAX == I64(127)
INT32_MIN == I64(-2147483647 - 1)
INT32_MAX == I64(2147483647)

\* the number held by an int64_t known to lie in 0 .. 2^31-1
ToNat(b) == b[1] + 256 * b[2] + 65536 * b[3] + 16777216 * b[4]

IsSmallNat(b) == b[4] < 128 /\ \A i \in 5..8 : b[i] = 0

RECURSIVE to_string(_)
to_string(n) ==
  IF n < 10 THEN <<48 + n>> ELSE to_string(n \div 10) \o <<48 + (n % 10)>>

------------------------------------------------------------------------------
(* IValues *)

NoneV == [k |-> "None", b |-> <<>>]
BoolV(x) == [k |-> "Bool", b |-> <<IF x THEN 1 ELSE 0>>]
IntB(bytes) == [k |-> "Int", b |-> bytes]
IntV(n) == IntB(I64(n))
DoubleV(bytes) == [k |-> "Double", b |-> bytes]
TensorV(h) == [k |-> "Tensor", b |-> <<h>>]
Ptr(kind, a) == [k |-> kind, b |-> <<a>>]
Obj(chars, elems) == [b |-> chars, e |-> elems]

PointerKinds == {"String", "Tuple", "List", "IntList", "Dict"}

\* 1.0 in host byte order (0x3FF0000000000000)
OnePointZero == <<0, 0, 0, 0, 0, 0, 240, 63>>

\* 2^31, the first value above int32_t
TwoTo31 == <<0, 0, 0, 128, 0, 0, 0, 0>>

\* The tensors of the session: what the Pickler reads of each handle.
Tensors ==
  <<[scalar_type |-> <<70, 108, 111, 97, 116>>, sizes |-> <<2>>,
     strides |-> <<1>>, numel |-> 2, requires_grad |-> FALSE,
     storage_key |-> 140, element_size |-> 4,
     storage |-> <<1, 0, 0, 0, 2, 0, 0, 0>>],
    [scalar_type |-> <<76, 111, 110, 103>>, sizes |-> <<>>,
     strides |-> <<>>, numel |-> 1, requires_grad |-> TRUE,
     storage_key |-> 7, element_size |-> 8,
     storage |-> <<9, 0, 0, 0, 0, 0, 0, 0>>],
    [scalar_type |-> <<70, 108, 111, 97, 116>>, sizes |-> <<0>>,
     strides |-> <<1>>, numel |-> 0, requires_grad |-> FALSE,
     storage_key |-> 31, element_size |-> 4, storage |-> <<>>]>>

\* The objects the caller built before the session, by address.
Mem ==
  <<Obj(<<97, 98>>, <<>>),                                         \* 1 String "ab"
    Obj(<<97, 98>>, <<>>),                                         \* 2 String "ab", built separately
    Obj(<<>>, <<IntV(1), IntV(2), IntV(3)>>),                      \* 3 IntList [1,2,3]
    Obj(<<>>, <<Ptr("String", 1), Ptr("String", 1), IntV(300)>>),  \* 4 List [s1, s1, 300]
    Obj(<<>>, <<Ptr("String", 2), BoolV(TRUE)>>),                  \* 5 Tuple (s2, True)
    Obj(<<>>, <<IntV(1), Ptr("String", 1),
                Ptr("String", 2), DoubleV(OnePointZero)>>),        \* 6 Dict {1: s1, s2: 1.0}
    Obj(<<>>, <<Ptr("Tuple", 5), Ptr("IntList", 3),
                Ptr("Tuple", 5), TensorV(1)>>),                    \* 7 List [t5, il3, t5, T1]
    Obj(<<>>, <<>>),                                               \* 8 Tuple ()
    Obj(<<>>, <<>>),                                               \* 9 List []
    Obj(<<>>, <<Ptr("List", 9), Ptr("Dict", 6), Ptr("List", 9)>>)  \* 10 Tuple (l9, d6, l9)
  >>

\* The IValues a caller hands to addIValue.
Values ==
  { NoneV, BoolV(TRUE), BoolV(FALSE), IntV(0), IntV(-129), IntB(TwoTo31),
    DoubleV(OnePointZero), TensorV(1), TensorV(2),
    Ptr("String", 1), Ptr("String", 2), Ptr("IntList", 3), Ptr("List", 4),
    Ptr("Tuple", 5), Ptr("Dict", 6), Ptr("List", 7), Ptr("Tuple", 8),
    Ptr("List", 9), Ptr("Tuple", 10) }

------------------------------------------------------------------------------
(* Pickler *)

\* A Pickler after construction; table is the caller's tensor side table,
\* or absent (tensor_table_ == nullptr).
NewPickler(mem, has_table, table) ==
  [stack_ |-> <<>>, memo_map_ |-> <<>>, memo_id_ |-> 0,
   memoized_strings_map_ |-> <<>>, memoized_ivalues_ |-> <<>>,
   literal_tensors_ |-> <<>>, has_table |-> has_table,
   tensor_table_ |-> table, mem |-> mem]

push(p, bytes) == [p EXCEPT !.stack_ = @ \o bytes]

pushOp(p, op) == push(p, <<op>>)

pushString(p, string) == push(p, string)

start(p) == push(pushOp(p, OpCode.PROTO), <<PROTOCOL_VERSION>>)

startTuple(p) == pushOp(p, OpCode.MARK)

endTuple(p) == pushOp(p, OpCode.TUPLE)

\* mutant: the isGenericDict branch is missing
getPointer_NoDict(ivalue) ==
  IF ivalue.k \in PointerKinds \ {"Dict"} THEN ivalue.b[1] ELSE 0

getPointer(ivalue) ==
  IF ivalue.k \in PointerKinds THEN ivalue.b[1] ELSE 0

\* mutant: the upper bounds are compared with < in place of <=
pushInt_StrictUpperBound(p, n) ==
  IF Le64(INT8_MIN, n) /\ Less64(n, INT8_MAX)
    THEN push(pushOp(p, OpCode.BININT1), SubSeq(n, 1, 1))
  ELSE IF Le64(INT32_MIN, n) /\ Less64(n, INT32_MAX)
    THEN push(pushOp(p, OpCode.BININT), SubSeq(n, 1, 4))
  ELSE push(push(pushOp(p, OpCode.LONG1), <<8>>), n)

pushInt(p, n) ==
  IF Le64(INT8_MIN, n) /\ Le64(n, INT8_MAX)
    THEN push(pushOp(p, OpCode.BININT1), SubSeq(n, 1, 1))
  ELSE IF Le64(INT32_MIN, n) /\ Le64(n, INT32_MAX)
    THEN push(pushOp(p, OpCode.BININT), SubSeq(n, 1, 4))
  ELSE push(push(pushOp(p, OpCode.LONG1), <<8>>), n)

\* mutant: the id is compared with < in place of <=
pushBinGet_StrictBound(p, memo_id) ==
  IF memo_id < 255
    THEN push(pushOp(p, OpCode.BINGET), <<memo_id>>)
  ELSE push(pushOp(p, OpCode.LONG_BINGET), LE(memo_id, 4))

pushBinGet(p, memo_id) ==
  IF memo_id <= 255
    THEN push(pushOp(p, OpCode.BINGET), <<memo_id>>)
    ELSE push(pushOp(p, OpCode.LONG_BINGET), LE(memo_id, 4))

\* returns the Pickler; the id it hands back is p.memo_id_
pushNextBinPut(p) ==
  LET q == IF p.memo_id_ <= 255
             THEN push(pushOp(p, OpCode.BINPUT), <<p.memo_id_>>)
             ELSE push(pushOp(p, OpCode.LONG_BINPUT), LE(p.memo_id_, 4))
  IN [q EXCEPT !.memo_id_ = @ + 1]

\* mutant: the address of the object is used as its memo id
pushMemoizationPtr_AddressAsId(p, item) ==
  [pushNextBinPut(p) EXCEPT !.memo_map_ = (item :> item) @@ @]

\* mutant: the id is read after pushNextBinPut has incremented it
pushMemoizationPtr_AfterIncrement(p, item) ==
  [pushNextBinPut(p) EXCEPT !.memo_map_ = (item :> p.memo_id_ + 1) @@ @]

pushMemoizationPtr(p, item) ==
  [pushNextBinPut(p) EXCEPT !.memo_map_ = (item :> p.memo_id_) @@ @]

pushMemoization(p, ivalue) ==
  pushMemoizationPtr(
    [p EXCEPT !.memoized_ivalues_ = Append(@, ivalue)], getPointer(ivalue))

\* mutant: the string is written and not memoized
pushMemoizedString_NoPut(p, ivalue) ==
  LET string == p.mem[ivalue.b[1]].b IN
  pushString(push(pushOp(p, OpCode.BINUNICODE), LE(Len(string), 4)), string)

pushMemoizedString(p, ivalue) ==
  LET string == p.mem[ivalue.b[1]].b IN
  pushMemoization(
    pushString(push(pushOp(p, OpCode.BINUNICODE), LE(Len(string), 4)), string),
    ivalue)

\* IValue(std::string(...)): a new string object, at an address of its own
NewString(p, chars) == [p EXCEPT !.mem = Append(@, Obj(chars, <<>>))]

pushTempString(p, chars) ==
  pushMemoizedString(NewString(p, chars), Ptr("String", Len(p.mem) + 1))

\* mutant: memoized_strings_map_ is not searched
pushGlobal_NoLookup(p, name_temp) ==
  [pushNextBinPut(pushString(pushOp(p, OpCode.GLOBAL), name_temp))
     EXCEPT !.memoized_strings_map_ = (name_temp :> p.memo_id_) @@ @]

pushGlobal(p, name_temp) ==
  IF name_temp \notin DOMAIN p.memoized_strings_map_
    THEN [pushNextBinPut(pushString(pushOp(p, OpCode.GLOBAL), name_temp))
            EXCEPT !.memoized_strings_map_ = (name_temp :> p.memo_id_) @@ @]
    ELSE pushBinGet(p, p.memoized_strings_map_[name_temp])

pushClass(p, cls) == pushGlobal(p, getModuleName \o getClassName(cls))

pushDouble(p, ivalue) ==
  push(pushOp(p, OpCode.BINFLOAT), [i \in 1..8 |-> ivalue.b[8 - i + 1]])

RECURSIVE pushInts(_, _)
pushInts(p, ns) ==
  IF ns = <<>> THEN p ELSE pushInts(pushInt(p, I64(Head(ns))), Tail(ns))

RECURSIVE addIValue(_, _)

RECURSIVE addIValues(_, _)
addIValues(p, items) ==
  IF items = <<>> THEN p
  ELSE addIValues(addIValue(p, Head(items)), Tail(items))

pushLiteralTensor(p, ivalue) ==
  LET tensor == Tensors[ivalue.b[1]]
      p1 == pushOp(pushOp(pushGlobal(p, rebuild_tensor_v2), OpCode.MARK),
                   OpCode.MARK)
      p2 == pushTempString(p1, str_storage)
      p3 == pushGlobal(p2, str_torch_nl \o tensor.scalar_type \o str_Storage_nl)
      p4 == pushTempString(p3, to_string(tensor.storage_key))
      p5 == pushTempString(p4, str_cpu)
      p6 == pushInt(p5, I64(tensor.numel))
      p7 == pushOp(pushOp(pushOp(p6, OpCode.NONE), OpCode.TUPLE),
                   OpCode.BINPERSID)
      p8 == pushInt(p7, I64(0))
      p9 == pushOp(pushInts(pushOp(p8, OpCode.MARK), tensor.sizes), OpCode.TUPLE)
      p10 == pushOp(pushInts(pushOp(p9, OpCode.MARK), tensor.strides),
                    OpCode.TUPLE)
      p11 == addIValue(p10, BoolV(tensor.requires_grad))
      p12 == pushOp(pushOp(pushGlobal(p11, OrderedDict), OpCode.EMPTY_TUPLE),
                    OpCode.REDUCE)
      p13 == pushOp(pushOp(p12, OpCode.TUPLE), OpCode.REDUCE)
  IN [p13 EXCEPT !.literal_tensors_ = Append(@, ivalue.b[1])]

\* mutant: the id is the size of the table, not the index of its last entry
pushTensorReference_IdIsSize(p, ivalue) ==
  LET p1 == pushClass(p, PicklerClass.TENSOR)
      p2 == [p1 EXCEPT !.tensor_table_ = Append(@, ivalue.b[1])]
      tensor_id == I64(Len(p2.tensor_table_))
      p3 == addIValue(pushOp(p2, OpCode.MARK), IntB(tensor_id))
  IN pushOp(pushOp(p3, OpCode.TUPLE), OpCode.REDUCE)

pushTensorReference(p, ivalue) ==
  LET p1 == pushClass(p, PicklerClass.TENSOR)
      p2 == [p1 EXCEPT !.tensor_table_ = Append(@, ivalue.b[1])]
      tensor_id == I64(Len(p2.tensor_table_) - 1)
      p3 == addIValue(pushOp(p2, OpCode.MARK), IntB(tensor_id))
  IN pushOp(pushOp(p3, OpCode.TUPLE), OpCode.REDUCE)

pushTensor(p, ivalue) ==
  IF ~p.has_table THEN pushLiteralTensor(p, ivalue)
  ELSE pushTensorReference(p, ivalue)

\* mutant: the empty list is given a memo id of its own, as pushList does
pushIntList_PutAfterEmptyList(p, ivalue) ==
  LET p1 == pushClass(p, PicklerClass.INTLIST)
      p2 == pushOp(pushNextBinPut(pushOp(pushOp(p1, OpCode.MARK),
                                         OpCode.EMPTY_LIST)),
                   OpCode.MARK)
      p3 == addIValues(p2, p.mem[ivalue.b[1]].e)
      p4 == pushOp(pushOp(pushOp(p3, OpCode.APPENDS), OpCode.TUPLE),
                   OpCode.REDUCE)
  IN pushMemoization(p4, ivalue)

\* mutant: the TUPLE closing the arguments of the reducer is missing
pushIntList_NoTuple(p, ivalue) ==
  LET p1 == pushClass(p, PicklerClass.INTLIST)
      p2 == pushOp(pushOp(pushOp(p1, OpCode.MARK), OpCode.EMPTY_LIST),
                   OpCode.MARK)
      p3 == addIValues(p2, p.mem[ivalue.b[1]].e)
      p4 == pushOp(pushOp(p3, OpCode.APPENDS), OpCode.REDUCE)
  IN pushMemoization(p4, ivalue)

pushIntList(p, ivalue) ==
  LET p1 == pushClass(p, PicklerClass.INTLIST)
      p2 == pushOp(pushOp(pushOp(p1, OpCode.MARK), OpCode.EMPTY_LIST),
                   OpCode.MARK)
      p3 == addIValues(p2, p.mem[ivalue.b[1]].e)
      p4 == pushOp(pushOp(pushOp(p3, OpCode.APPENDS), OpCode.TUPLE),
                   OpCode.REDUCE)
  IN pushMemoization(p4, ivalue)

pushDict(p, ivalue) ==
  LET p1 == pushMemoization(pushOp(p, OpCode.EMPTY_DICT), ivalue)
      dict_items == p.mem[ivalue.b[1]].e
  IN pushOp(addIValues(pushOp(p1, OpCode.MARK), dict_items), OpCode.SETITEMS)

pushList(p, ivalue) ==
  LET list == p.mem[ivalue.b[1]].e
      p1 == pushMemoization(pushOp(p, OpCode.EMPTY_LIST), ivalue)
  IN pushOp(addIValues(pushOp(p1, OpCode.MARK), list), OpCode.APPENDS)

pushTuple(p, ivalue) ==
  LET tuple == p.mem[ivalue.b[1]].e
      p1 == addIValues(pushOp(p, OpCode.MARK), tuple)
  IN pushMemoization(pushOp(p1, OpCode.TUPLE), ivalue)

addIValue(p, ivalue) ==
  LET ivalue_ptr == getPointer(ivalue) IN
  IF ivalue_ptr # 0 /\ ivalue_ptr \in DOMAIN p.memo_map_
    THEN pushBinGet(p, p.memo_map_[ivalue_ptr])
  ELSE CASE ivalue.k = "Tensor" -> pushTensor(p, ivalue)
         [] ivalue.k = "Tuple" -> pushTuple(p, ivalue)
         [] ivalue.k = "Double" -> pushDouble(p, ivalue)
         [] ivalue.k = "Int" -> pushInt(p, ivalue.b)
         [] ivalue.k = "Bool" ->
              IF ivalue.b[1] = 1 THEN pushOp(p, OpCode.NEWTRUE)
              ELSE pushOp(p, OpCode.NEWFALSE)
         [] ivalue.k = "String" -> pushMemoizedString(p, ivalue)
         [] ivalue.k = "List" -> pushList(p, ivalue)
         [] ivalue.k = "Dict" -> pushDict(p, ivalue)
         [] ivalue.k = "None" -> pushOp(p, OpCode.NONE)
         [] ivalue.k = "IntList" -> pushIntList(p, ivalue)

\* number of elements and the bytes of the storage
pushTensorData(p, tensor) ==
  push(push(p, I64(Tensors[tensor].numel)), Tensors[tensor].storage)

RECURSIVE pushKeys(_, _)
pushKeys(p, tensors) ==
  IF tensors = <<>> THEN p
  ELSE LET key == to_string(Tensors[Head(tensors)].storage_key) IN
       pushKeys(
         pushString(push(pushOp(p, OpCode.BINUNICODE), LE(Len(key), 4)), key),
         Tail(tensors))

\* mutant: the records are written from the last tensor to the first
RECURSIVE pushAllTensorData_Reversed(_, _)
pushAllTensorData_Reversed(p, tensors) ==
  IF tensors = <<>> THEN p
  ELSE pushTensorData(pushAllTensorData_Reversed(p, Tail(tensors)),
                      Head(tensors))

RECURSIVE pushAllTensorData(_, _)
pushAllTensorData(p, tensors) ==
  IF tensors = <<>> THEN p
  ELSE pushAllTensorData(pushTensorData(p, Head(tensors)), Tail(tensors))

\* mutant: the key program is written whether or not a tensor was collected
finish_AlwaysTrailer(p) ==
  LET p1 == pushOp(p, OpCode.STOP)
      p2 == pushKeys(pushOp(start(p1), OpCode.MARK), p.literal_tensors_)
      p3 == pushOp(pushOp(p2, OpCode.TUPLE), OpCode.STOP)
  IN pushAllTensorData(p3, p.literal_tensors_)

finish(p) ==
  LET p1 == pushOp(p, OpCode.STOP) IN
  IF Len(p.literal_tensors_) > 0
    THEN LET p2 == pushKeys(pushOp(start(p1), OpCode.MARK), p.literal_tensors_)
             p3 == pushOp(pushOp(p2, OpCode.TUPLE), OpCode.STOP)
         IN pushAllTensorData(p3, p.literal_tensors_)
    ELSE p1

------------------------------------------------------------------------------
(* Unpickler *)

\* An Unpickler after construction over the bytes data; past_end is what the
\* memory holds behind the last byte of data (not part of the input).
NewUnpickler(data, tensor_table, past_end) ==
  [input |-> data, past_end |-> past_end, bytes_ |-> 0, end_ptr_ |-> Len(data),
   stack_ |-> <<>>, marks_ |-> <<>>, memo_table_ |-> <<>>, last_opcode_ |-> 0,
   tensor_table_ |-> tensor_table, mem |-> <<>>, status |-> "new",
   why |-> "", max_read |-> 0, result |-> <<>>]

\* AT_CHECK / AT_ASSERT / AT_ERROR / a throwing at(): the decode aborts
Err(u, why) == [u EXCEPT !.status = "error", !.why = why]

\* undefined behaviour: back() or pop_back() of an empty vector, an index
\* behind the end of a vector, the value of an absent optional
Undefined(u, why) == [u EXCEPT !.status = "ub", !.why = why]

\* the byte at offset i (from 0) of the memory starting at the input
byteAt(u, i) ==
  IF i < Len(u.input) THEN u.input[i + 1]
  ELSE IF i - Len(u.input) < Len(u.past_end)
         THEN u.past_end[i - Len(u.input) + 1] ELSE 0

touch(u, i) == [u EXCEPT !.max_read = IF i + 1 > @ THEN i + 1 ELSE @]

\* read<T>() with sizeof(T) = n: the bounds check, the bytes, the cursor
canRead(u, n) == u.bytes_ + n <= u.end_ptr_

operand(u, n) == [i \in 1..n |-> byteAt(u, u.bytes_ + i - 1)]

advance(u, n) == [touch(u, u.bytes_ + n - 1) EXCEPT !.bytes_ = @ + n]

SignExtend(bytes) ==
  [i \in 1..8 |-> IF i <= Len(bytes) THEN bytes[i]
                  ELSE IF bytes[Len(bytes)] >= 128 THEN 255 ELSE 0]

pushEntry(u, entry) == [u EXCEPT !.stack_ = Append(@, entry)]

\* a new object of the given kind, and the IValue holding it on the stack
emplaceObject(u, kind, obj) ==
  [u EXCEPT !.mem = Append(@, obj),
            !.stack_ = Append(@, Ptr(kind, Len(u.mem) + 1))]

back(seq) == seq[Len(seq)]

pop_back(seq) == SubSeq(seq, 1, Len(seq) - 1)

is_valid_python_id_char(c) ==
  c = 95 \/ c = 46 \/ (c >= 48 /\ c <= 57) \/ (c >= 97 /\ c <= 122)
    \/ (c >= 65 /\ c <= 90)

\* the loop of readString from offset n of the identifier on
RECURSIVE readStringFrom(_, _)
readStringFrom(u, n) ==
  LET c == byteAt(u, u.bytes_ + n)
      t == touch(u, u.bytes_ + n)
  IN IF c = 10 THEN [t EXCEPT !.bytes_ = @ + n + 1, !.result = operand(u, n)]
     ELSE IF ~is_valid_python_id_char(c) THEN Err(t, "identifier character")
     ELSE IF ~(u.bytes_ + n + 1 < u.end_ptr_) THEN Err(t, "expected a newline")
     ELSE readStringFrom(t, n + 1)

\* the string read is left in .result
readString(u) == readStringFrom(u, 0)

\* 0 TENSOR, 1 INTLIST, 2: AT_ERROR
getClass(str) ==
  IF str = SubSeq(tensor_class, 1, Len(tensor_class) - 1)
    THEN PicklerClass.TENSOR
  ELSE IF str = SubSeq(intlist_class, 1, Len(intlist_class) - 1)
    THEN PicklerClass.INTLIST
  ELSE IF str = <<84, 101, 110, 115, 111, 114, 73, 68>>
    THEN PicklerClass.TENSOR
  ELSE IF str = <<73, 110, 116, 76, 105, 115, 116>>
    THEN PicklerClass.INTLIST
  ELSE 2

ClassEntry(cls) == [k |-> "Class", b |-> <<cls>>]

\* "__main__"
str_main == <<95, 95, 109, 97, 105, 110, 95, 95>>

readGlobal(u) ==
  LET m == readString(u) IN
  IF m.status = "error" THEN m
  ELSE LET module == m.result
           c == readString([m EXCEPT !.result = <<>>])
       IN IF c.status = "error" THEN c
          ELSE LET cls == getClass(c.result)
                   d == [c EXCEPT !.result = <<>>]
               IN IF cls = 2 THEN Err(d, "Unknown class name")
                  ELSE IF module = str_main THEN pushEntry(d, IntV(cls))
                  ELSE pushEntry(d, ClassEntry(cls))

\* IValue equality of two dictionary keys
KeyEq(mem, x, y) ==
  /\ x.k = y.k
  /\ IF x.k = "String" THEN mem[x.b[1]].b = mem[y.b[1]].b ELSE x.b = y.b

\* dict->elements()[key] = value on the flattened key, value sequence
RECURSIVE dictSet(_, _, _, _)
dictSet(mem, items, key, value) ==
  IF items = <<>> THEN <<key, value>>
  ELSE IF KeyEq(mem, items[1], key)
    THEN <<items[1], value>> \o SubSeq(items, 3, Len(items))
  ELSE <<items[1], items[2]>>
         \o dictSet(mem, SubSeq(items, 3, Len(items)), key, value)

RECURSIVE dictSetAll(_, _, _)
dictSetAll(mem, items, pairs) ==
  IF pairs = <<>> THEN items
  ELSE dictSetAll(mem, dictSet(mem, items, pairs[1], pairs[2]),
                  SubSeq(pairs, 3, Len(pairs)))

readList(u) ==
  IF u.marks_ = <<>> THEN Undefined(u, "marks_.back() of no mark")
  ELSE
  LET m0 == back(u.marks_)
      v == [u EXCEPT !.marks_ = pop_back(@)]
      above == SubSeq(v.stack_, m0 + 1, Len(v.stack_))
  IN IF m0 = 0 \/ m0 > Len(v.stack_) THEN Err(v, "stack_.at")
     ELSE LET list_ivalue == v.stack_[m0] IN
          IF list_ivalue.k = "Class" THEN Undefined(v, "ivalue() of a class")
          ELSE IF \E i \in 1..Len(above) : above[i].k = "Class"
            THEN Undefined(v, "ivalue() of a class")
          ELSE IF list_ivalue.k = "IntList"
            THEN IF \E i \in 1..Len(above) : above[i].k # "Int"
                   THEN Err(v, "toInt")
                   ELSE [v EXCEPT !.mem[list_ivalue.b[1]].e = @ \o above,
                                  !.stack_ = SubSeq(@, 1, m0)]
          ELSE IF list_ivalue.k # "List" THEN Err(v, "toGenericList")
          ELSE [v EXCEPT !.mem[list_ivalue.b[1]].e = @ \o above,
                         !.stack_ = SubSeq(@, 1, m0)]

readFloat(u) ==
  IF ~(u.bytes_ + 8 < u.end_ptr_) THEN Err(u, "readFloat")
  ELSE pushEntry(advance(u, 8),
                 DoubleV([i \in 1..8 |-> operand(u, 8)[8 - i + 1]]))

readEmptyList(u) ==
  IF u.last_opcode_ = OpCode.NEWOBJ
    THEN IF Len(u.stack_) = 0 THEN Err(u, "empty stack")
         ELSE IF back(u.stack_).k = "Class"
           THEN Undefined(u, "ivalue() of a class")
         ELSE IF back(u.stack_).k # "Int" THEN Err(u, "toInt")
         ELSE LET value == back(u.stack_).b IN
              IF ~(Le64(I64(0), value) /\ Le64(value, I64(255)))
                THEN Err(u, "could not decode PicklerClass")
              ELSE IF value[1] = PicklerClass.INTLIST
                THEN emplaceObject(u, "IntList", Obj(<<>>, <<>>))
              ELSE u
  ELSE IF Len(u.stack_) > 0 /\ back(u.stack_).k = "Class"
    THEN IF back(u.stack_).b[1] = PicklerClass.INTLIST
           THEN emplaceObject(u, "IntList", Obj(<<>>, <<>>))
           ELSE Err(u, "Unknown list specialization")
  ELSE emplaceObject(u, "List", Obj(<<>>, <<>>))

\* mutant: the id is bound to a copy of the object on top of the stack
readBinPut_Clone(u, n) ==
  IF ~canRead(u, n) THEN Err(u, "read")
  ELSE IF u.stack_ = <<>> THEN Undefined(advance(u, n), "stack_.back()")
  ELSE IF back(u.stack_).k \notin PointerKinds
    THEN [advance(u, n) EXCEPT !.memo_table_ = Append(@, back(u.stack_))]
  ELSE [advance(u, n) EXCEPT
          !.mem = Append(@, u.mem[back(u.stack_).b[1]]),
          !.memo_table_ = Append(@, Ptr(back(u.stack_).k, Len(u.mem) + 1))]

\* BINPUT and LONG_BINPUT, the operand being n bytes wide
readBinPut(u, n) ==
  IF ~canRead(u, n) THEN Err(u, "read")
  ELSE IF u.stack_ = <<>> THEN Undefined(advance(u, n), "stack_.back()")
  ELSE [advance(u, n) EXCEPT !.memo_table_ = Append(@, back(u.stack_))]

\* BINGET and LONG_BINGET, the operand being n bytes wide
readBinGet(u, n) ==
  IF ~canRead(u, n) THEN Err(u, "read")
  ELSE LET id == operand(u, n)
           v == advance(u, n)
       IN IF n = 4 /\ id[4] >= 128 THEN Err(v, "memo_table_.at")
          ELSE LET i == IF n = 1 THEN id[1] ELSE ToNat(id) IN
               IF i >= Len(v.memo_table_) THEN Err(v, "memo_table_.at")
               ELSE pushEntry(v, v.memo_table_[i + 1])

readTuple(u) ==
  IF u.marks_ = <<>> THEN Undefined(u, "marks_.back() of no mark")
  ELSE
  LET m0 == back(u.marks_)
      v == [u EXCEPT !.marks_ = pop_back(@)]
  IN IF m0 > Len(v.stack_) THEN Undefined(v, "iterator behind the end")
     ELSE LET elements == SubSeq(v.stack_, m0 + 1, Len(v.stack_)) IN
          IF \E i \in 1..Len(elements) : elements[i].k = "Class"
            THEN Undefined(v, "ivalue() of a class")
          ELSE emplaceObject([v EXCEPT !.stack_ = SubSeq(@, 1, m0)],
                             "Tuple", Obj(<<>>, elements))

readSetItems(u) ==
  IF u.marks_ = <<>> THEN Undefined(u, "marks_.back() of no mark")
  ELSE
  LET m0 == back(u.marks_)
      v == [u EXCEPT !.marks_ = pop_back(@)]
  IN IF m0 = 0 \/ m0 > Len(v.stack_) THEN Err(v, "stack_.at")
     ELSE LET dict == v.stack_[m0]
              pairs == SubSeq(v.stack_, m0 + 1, Len(v.stack_))
          IN IF dict.k = "Class" THEN Undefined(v, "ivalue() of a class")
             ELSE IF dict.k # "Dict" THEN Err(v, "toGenericDict")
             ELSE IF Len(pairs) % 2 = 1
               THEN Undefined(v, "stack_[i + 1] behind the end")
             ELSE IF \E i \in 1..Len(pairs) : pairs[i].k = "Class"
               THEN Undefined(v, "ivalue() of a class")
             ELSE [v EXCEPT !.mem[dict.b[1]].e = dictSetAll(v.mem, @, pairs),
                            !.stack_ = SubSeq(@, 1, m0)]

\* mutant: the empty tuple is left on the stack
readNewObj_NoPop(u) ==
  IF u.stack_ = <<>> THEN Undefined(u, "pop_back() of an empty stack")
  ELSE u

readNewObj(u) ==
  IF u.stack_ = <<>> THEN Undefined(u, "pop_back() of an empty stack")
  ELSE [u EXCEPT !.stack_ = pop_back(@)]

\* tensor_table_->at(i) of an int64_t index
tensorAt(u, index) ==
  IF IsSmallNat(index) /\ ToNat(index) < Len(u.tensor_table_)
    THEN pushEntry(u, TensorV(u.tensor_table_[ToNat(index) + 1]))
    ELSE Err(u, "tensor_table_->at")

readBuild(u) ==
  IF u.stack_ = <<>> THEN Undefined(u, "stack_.back()")
  ELSE IF back(u.stack_).k = "Class" THEN Undefined(u, "ivalue() of a class")
  ELSE
  LET setitem_data == back(u.stack_)
      v == [u EXCEPT !.stack_ = pop_back(@)]
  IN IF v.stack_ = <<>> THEN Undefined(v, "stack_.back()")
     ELSE IF back(v.stack_).k = "Class"
       THEN Undefined(v, "ivalue() of a class")
     ELSE IF back(v.stack_).k # "Int" THEN Err(v, "toInt")
     ELSE LET class_name == back(v.stack_).b[1]
              w == [v EXCEPT !.stack_ = pop_back(@)]
          IN IF class_name = PicklerClass.TENSOR
               THEN IF setitem_data.k # "Int" THEN Err(w, "toInt")
                    ELSE tensorAt(w, setitem_data.b)
             ELSE IF class_name = PicklerClass.INTLIST
               THEN pushEntry(w, setitem_data)
             ELSE Err(w, "Unknown pickler class id")

readReduce(u) ==
  IF u.stack_ = <<>> THEN Undefined(u, "stack_.back()")
  ELSE IF back(u.stack_).k = "Class" THEN Undefined(u, "ivalue() of a class")
  ELSE IF back(u.stack_).k # "Tuple" THEN Err(u, "toTuple")
  ELSE
  LET data == u.mem[back(u.stack_).b[1]].e
      v == [u EXCEPT !.stack_ = pop_back(@)]
  IN IF v.stack_ = <<>> THEN Undefined(v, "stack_.back()")
     ELSE IF back(v.stack_).k # "Class"
       THEN Undefined(v, "pickler_class() of a value")
     ELSE LET class_name == back(v.stack_).b[1]
              w == [v EXCEPT !.stack_ = pop_back(@)]
          IN IF data = <<>> THEN Err(w, "elements().at(0)")
             ELSE IF class_name = PicklerClass.TENSOR
               THEN IF data[1].k # "Int" THEN Err(w, "toInt")
                    ELSE tensorAt(w, data[1].b)
             ELSE IF data[1].k # "IntList" THEN Err(w, "toIntListRef")
             ELSE emplaceObject(w, "IntList",
                                Obj(<<>>, w.mem[data[1].b[1]].e))

\* an integer opcode whose operand is n bytes wide
readBinInt(u, n) ==
  IF ~canRead(u, n) THEN Err(u, "read")
  ELSE pushEntry(advance(u, n), IntB(SignExtend(operand(u, n))))

readLong1(u) ==
  IF ~canRead(u, 1) THEN Err(u, "read")
  ELSE LET length == operand(u, 1)[1]
           v == advance(u, 1)
       IN IF length # 8 THEN Err(v, "length == 8")
          ELSE readBinInt(v, 8)

readBinUnicode(u) ==
  IF ~canRead(u, 4) THEN Err(u, "read")
  ELSE LET length == operand(u, 4)
           v == advance(u, 4)
       IN IF length[4] >= 128 \/ ~(v.bytes_ + ToNat(length) < v.end_ptr_)
            THEN Err(v, "bytes_ + length < end_ptr_")
          ELSE LET n == ToNat(length) IN
               emplaceObject(IF n = 0 THEN v ELSE advance(v, n), "String",
                             Obj(operand(v, n), <<>>))

readOpCode(u) == operand(u, 1)[1]

\* the state after one instruction; the opcode it returns is the byte at
\* the cursor of u
readInstruction(u) ==
  IF ~canRead(u, 1) THEN Err(u, "read")
  ELSE
  LET opcode == readOpCode(u)
      v == advance(u, 1)
  IN CASE opcode = OpCode.EMPTY_LIST -> readEmptyList(v)
       [] opcode = OpCode.EMPTY_TUPLE ->
            emplaceObject(v, "Tuple", Obj(<<>>, <<>>))
       [] opcode = OpCode.BINPUT -> readBinPut(v, 1)
       [] opcode = OpCode.LONG_BINPUT -> readBinPut(v, 4)
       [] opcode = OpCode.MARK ->
            [v EXCEPT !.marks_ = Append(@, Len(v.stack_))]
       [] opcode = OpCode.NEWTRUE -> pushEntry(v, BoolV(TRUE))
       [] opcode = OpCode.NEWFALSE -> pushEntry(v, BoolV(FALSE))
       [] opcode = OpCode.BININT1 -> readBinInt(v, 1)
       [] opcode = OpCode.BININT -> readBinInt(v, 4)
       [] opcode = OpCode.LONG1 -> readLong1(v)
       [] opcode = OpCode.BINUNICODE -> readBinUnicode(v)
       [] opcode = OpCode.BINFLOAT -> readFloat(v)
       [] opcode = OpCode.TUPLE -> readTuple(v)
       [] opcode = OpCode.EMPTY_DICT ->
            emplaceObject(v, "Dict", Obj(<<>>, <<>>))
       [] opcode = OpCode.APPENDS -> readList(v)
       [] opcode = OpCode.SETITEMS -> readSetItems(v)
       [] opcode = OpCode.BINGET -> readBinGet(v, 1)
       [] opcode = OpCode.LONG_BINGET -> readBinGet(v, 4)
       [] opcode = OpCode.STOP -> v
       [] opcode = OpCode.GLOBAL -> readGlobal(v)
       [] opcode = OpCode.NEWOBJ -> readNewObj(v)
       [] opcode = OpCode.BUILD -> readBuild(v)
       [] opcode = OpCode.REDUCE -> readReduce(v)
       [] OTHER -> Err(v, "Unknown opcode")

\* mutant: the protocol number is read and not compared
runProto_AnyProtocol(u) ==
  IF ~canRead(u, 1) THEN Err(u, "read")
  ELSE IF readOpCode(u) # OpCode.PROTO THEN Err(advance(u, 1), "Expected PROTO")
  ELSE LET v == advance(u, 1) IN
       IF ~canRead(v, 1) THEN Err(v, "read")
       ELSE [advance(v, 1) EXCEPT !.status = "running"]

\* the start of run: the PROTO opcode and the protocol number
runProto(u) ==
  IF ~canRead(u, 1) THEN Err(u, "read")
  ELSE IF readOpCode(u) # OpCode.PROTO THEN Err(advance(u, 1), "Expected PROTO")
  ELSE LET v == advance(u, 1) IN
       IF ~canRead(v, 1) THEN Err(v, "read")
       ELSE IF operand(v, 1)[1] # 2 THEN Err(advance(v, 1), "protocol")
       ELSE [advance(v, 1) EXCEPT !.status = "running"]

\* one turn of the loop of run
runStep(u) ==
  IF ~(u.bytes_ < u.end_ptr_) THEN Err(u, "didn't find STOP")
  ELSE LET opcode == readOpCode(u)
           v == readInstruction(u)
       IN IF v.status # "running" THEN v
          ELSE IF opcode = OpCode.STOP THEN [v EXCEPT !.status = "stopped"]
          ELSE [v EXCEPT !.last_opcode_ = opcode]

RECURSIVE runLoop(_)
runLoop(u) == IF u.status # "running" THEN u ELSE runLoop(runStep(u))

run(u) == runLoop(runProto(u))

\* after run has returned
parseResult(u) ==
  IF Len(u.stack_) # 1 THEN Err(u, "expected 1 element on the stack")
  ELSE LET value == u.stack_[1] IN
       IF value.k = "Class" THEN Undefined(u, "ivalue() of a class")
       ELSE IF value.k = "List" \/ value.k = "Tuple"
         THEN [u EXCEPT !.status = "done", !.result = u.mem[value.b[1]].e]
       ELSE Err(u, "toTuple")

parse_ivalue_list(u) ==
  LET v == run(u) IN IF v.status = "stopped" THEN parseResult(v) ELSE v

------------------------------------------------------------------------------
(* A session: start, startTuple, addIValue ..., endTuple, finish, and then *)
(* parse_ivalue_list over the bytes written                                *)

\* what the memory may hold behind the end of the input
PastEnd == {<<10, 10>>, <<97, 10>>, <<10, 97>>, <<0, 0>>}

NoUnpickler == NewUnpickler(<<>>, <<>>, <<>>)

NoPickler == NewPickler(<<>>, FALSE, <<>>)

\* without a tensor side table, with an empty one, with one holding a tensor
InitialPicklers ==
  {NewPickler(Mem, FALSE, <<>>), NewPickler(Mem, TRUE, <<>>),
   NewPickler(Mem, TRUE, <<3>>)}

Init ==
  /\ pc = "new"
  /\ pickler \in InitialPicklers
  /\ calls = <<>>
  /\ unpickler = NoUnpickler
  /\ pickler2 = NoPickler

Start ==
  /\ pc = "new"
  /\ pickler' = start(pickler)
  /\ pc' = "started"
  /\ UNCHANGED <<calls, unpickler, pickler2>>

StartTuple ==
  /\ pc = "started"
  /\ pickler' = startTuple(pickler)
  /\ pc' = "tuple"
  /\ UNCHANGED <<calls, unpickler, pickler2>>

AddIValue ==
  /\ pc = "tuple"
  /\ Len(calls) < MaxVals
  /\ \E v \in Values :
       /\ pickler' = addIValue(pickler, v)
       /\ calls' = Append(calls, [v |-> v, from |-> Len(pickler.stack_),
                                  to |-> Len(pickler'.stack_)])
  /\ UNCHANGED <<pc, unpickler, pickler2>>

EndTuple ==
  /\ pc = "tuple"
  /\ pickler' = endTuple(pickler)
  /\ pc' = "ended"
  /\ UNCHANGED <<calls, unpickler, pickler2>>

Finish ==
  /\ pc = "ended"
  /\ pickler' = finish(pickler)
  /\ pc' = "finished"
  /\ UNCHANGED <<calls, unpickler, pickler2>>

Parse ==
  /\ pc = "finished"
  /\ \E past \in PastEnd :
       unpickler' = parse_ivalue_list(
                      NewUnpickler(pickler.stack_, pickler.tensor_table_, past))
  /\ pc' = "parsed"
  /\ UNCHANGED <<pickler, calls, pickler2>>

Next == Start \/ StartTuple \/ AddIValue \/ EndTuple \/ Finish \/ Parse

Spec == Init /\ [][Next]_vars

------------------------------------------------------------------------------
(* Properties *)

\* whether an IValue of tag kind occurs in v
RECURSIVE Contains(_, _, _)
Contains(mem, v, kind) ==
  \/ v.k = kind
  \/ /\ v.k \in PointerKinds
     /\ \E i \in 1..Len(mem[v.b[1]].e) : Contains(mem, mem[v.b[1]].e[i], kind)

\* structural equality of x in memory m1 and y in memory m2; a tensor is
\* equal to the same handle only
RECURSIVE SameValue(_, _, _, _)
SameValue(m1, x, m2, y) ==
  /\ x.k = y.k
  /\ IF x.k \notin PointerKinds THEN x.b = y.b
     ELSE LET o1 == m1[x.b[1]]
              o2 == m2[y.b[1]]
          IN /\ o1.b = o2.b
             /\ Len(o1.e) = Len(o2.e)
             /\ IF x.k = "Dict"
                  THEN \A i \in 1..Len(o1.e) :
                         i % 2 = 1 =>
                           \E j \in 1..Len(o2.e) :
                             /\ j % 2 = 1
                             /\ SameValue(m1, o1.e[i], m2, o2.e[j])
                             /\ SameValue(m1, o1.e[i + 1], m2, o2.e[j + 1])
                  ELSE \A i \in 1..Len(o1.e) :
                         SameValue(m1, o1.e[i], m2, o2.e[i])

\* the session wrote no literal tensor
NoLiteralTensor ==
  pickler.has_table \/ \A i \in 1..Len(calls) :
                         ~Contains(pickler.mem, calls[i].v, "Tensor")

Decoded ==
  /\ unpickler.status = "done"
  /\ Len(unpickler.result) = Len(calls)
  /\ \A i \in 1..Len(calls) :
       SameValue(pickler.mem, calls[i].v, unpickler.mem, unpickler.result[i])

\* C1: what start, startTuple, addIValue(v), endTuple, finish wrote decodes,
\* with the same tensor side table, to one element structurally equal to v
C1_RoundTrip ==
  (pc = "parsed" /\ Len(calls) = 1 /\ NoLiteralTensor) => Decoded

\* C1 with None left out of the values
C1_RoundTripWithoutNone ==
  (/\ pc = "parsed"
   /\ NoLiteralTensor
   /\ \A i \in 1..Len(calls) : ~Contains(pickler.mem, calls[i].v, "None"))
    => Decoded

------------------------------------------------------------------------------
(* The pickle program held in a byte sequence, as the instructions it is   *)
(* made of: [op, arg, at] with arg the operand bytes and at the offset     *)

NoOperand ==
  {OpCode.MARK, OpCode.STOP, OpCode.NONE, OpCode.BINPERSID, OpCode.REDUCE,
   OpCode.EMPTY_LIST, OpCode.APPENDS, OpCode.SETITEMS, OpCode.TUPLE,
   OpCode.EMPTY_DICT, OpCode.EMPTY_TUPLE, OpCode.NEWTRUE, OpCode.NEWFALSE,
   OpCode.NEWOBJ, OpCode.BUILD}

\* the offset behind the next newline at or after offset i, 0 if there is none
AfterNewline(bytes, i) ==
  IF \A j \in (i + 1)..Len(bytes) : bytes[j] # 10 THEN 0
  ELSE CHOOSE j \in (i + 1)..Len(bytes) :
         bytes[j] = 10 /\ \A m \in (i + 1)..(j - 1) : bytes[m] # 10

\* the width of the operand of the instruction at offset i, -1 if the bytes
\* hold no whole instruction there
OperandWidth(bytes, i) ==
  LET op == bytes[i + 1]
      left == Len(bytes) - i - 1
      fixed == CASE op \in NoOperand -> 0
                 [] op \in {OpCode.PROTO, OpCode.BININT1, OpCode.BINGET,
                            OpCode.BINPUT} -> 1
                 [] op = OpCode.BININT2 -> 2
                 [] op \in {OpCode.BININT, OpCode.LONG_BINGET,
                            OpCode.LONG_BINPUT} -> 4
                 [] op = OpCode.BINFLOAT -> 8
                 [] op = OpCode.LONG1 ->
                      IF left >= 1 THEN 1 + bytes[i + 2] ELSE -1
                 [] op = OpCode.BINUNICODE ->
                      IF left >= 4 /\ bytes[i + 5] < 128
                        THEN 4 + ToNat(SubSeq(bytes, i + 2, i + 5)) ELSE -1
                 [] op = OpCode.GLOBAL ->
                      LET m == AfterNewline(bytes, i + 1) IN
                      IF m = 0 THEN -1
                      ELSE LET n == AfterNewline(bytes, m) IN
                           IF n = 0 THEN -1 ELSE n - i - 1
                 [] OTHER -> -1
  IN IF fixed > left THEN -1 ELSE fixed

InstructionAt(bytes, i) ==
  LET w == OperandWidth(bytes, i) IN
  IF w < 0 THEN [op |-> -1, arg |-> <<>>, at |-> i, next |-> Len(bytes)]
  ELSE [op |-> bytes[i + 1], arg |-> SubSeq(bytes, i + 2, i + 1 + w), at |-> i,
        next |-> IF bytes[i + 1] = OpCode.STOP THEN Len(bytes) ELSE i + 1 + w]

\* the first 2^k instructions from offset i, up to the first STOP
RECURSIVE InstructionsFrom(_, _, _)
InstructionsFrom(bytes, i, k) ==
  IF i >= Len(bytes) THEN <<>>
  ELSE IF k = 0 THEN <<InstructionAt(bytes, i)>>
  ELSE LET half == InstructionsFrom(bytes, i, k - 1) IN
       IF Len(half) < 2 ^ (k - 1) THEN half
       ELSE half \o InstructionsFrom(bytes, half[Len(half)].next, k - 1)

Instructions(bytes) == InstructionsFrom(bytes, 0, 12)

IsPut(ins) == ins.op \in {OpCode.BINPUT, OpCode.LONG_BINPUT}

IsGet(ins) == ins.op \in {OpCode.BINGET, OpCode.LONG_BINGET}

\* the memo id an operand of 1 or 4 bytes carries
MemoId(ins) == IF Len(ins.arg) = 1 THEN ins.arg[1] ELSE ToNat(ins.arg)

WellFormed(prog) == \A i \in 1..Len(prog) : prog[i].op # -1

\* C2: every GET of the stream written so far is preceded by a PUT of the
\* same id
C2_GetAfterPut ==
  LET prog == Instructions(pickler.stack_) IN
  /\ WellFormed(prog)
  /\ \A j \in 1..Len(prog) :
       IsGet(prog[j]) =>
         \E i \in 1..(j - 1) :
           IsPut(prog[i]) /\ MemoId(prog[i]) = MemoId(prog[j])

\* C2 witness: a finished stream with a GET of a value and a GET of a global
C2_Witness ==
  /\ pc = "finished"
  /\ ~pickler.has_table
  /\ LET prog == Instructions(pickler.stack_) IN
     \E i, j \in 1..Len(prog) :
       /\ IsGet(prog[i]) /\ IsGet(prog[j])
       /\ MemoId(prog[i]) # MemoId(prog[j])
       /\ MemoId(prog[i]) \in
            {pickler.memoized_strings_map_[g] :
               g \in DOMAIN pickler.memoized_strings_map_}
       /\ MemoId(prog[j]) \in
            {pickler.memo_map_[a] : a \in DOMAIN pickler.memo_map_}

\* the addresses of the objects v is built from
RECURSIVE Addresses(_, _)
Addresses(mem, v) ==
  IF v.k \notin PointerKinds THEN {}
  ELSE {v.b[1]} \cup UNION {Addresses(mem, mem[v.b[1]].e[i]) :
                              i \in 1..Len(mem[v.b[1]].e)}

\* the objects emitted by the calls before call j
SeenBefore(j) ==
  UNION {Addresses(pickler.mem, calls[i].v) : i \in 1..(j - 1)}

\* what call j wrote, and what was written before it
Segment(j) ==
  Instructions(SubSeq(pickler.stack_, calls[j].from + 1, calls[j].to))

Before(j) == Instructions(SubSeq(pickler.stack_, 1, calls[j].from))

PutsOf(prog, id) ==
  {i \in 1..Len(prog) : IsPut(prog[i]) /\ MemoId(prog[i]) = id}

\* where the inline encoding of a kind holds the PUT of the object itself
OwnPut(kind, seg) == IF kind \in {"List", "Dict"} THEN 2 ELSE Len(seg)

\* how the inline encoding of a kind starts
InlineHead(mem, v, seg) ==
  CASE v.k = "String" ->
         /\ seg[1].op = OpCode.BINUNICODE
         /\ seg[1].arg = LE(Len(mem[v.b[1]].b), 4) \o mem[v.b[1]].b
         /\ Len(seg) = 2
    [] v.k = "List" -> seg[1].op = OpCode.EMPTY_LIST
    [] v.k = "Dict" -> seg[1].op = OpCode.EMPTY_DICT
    [] v.k = "Tuple" -> seg[1].op = OpCode.MARK
    [] v.k = "IntList" ->
         /\ seg[1].op = OpCode.GLOBAL \/ IsGet(seg[1])
         /\ seg[Len(seg) - 1].op = OpCode.REDUCE

\* C3: the first addIValue of an object writes its inline encoding with one
\* PUT of its own; every later addIValue of the same object writes one GET
\* of that id and nothing else; an equal object at another address is
\* written inline with a PUT of its own
C3_IdentityMemoization ==
  \A j \in 1..Len(calls) :
    LET v == calls[j].v
        seg == Segment(j)
        all == Instructions(SubSeq(pickler.stack_, 1, calls[Len(calls)].to))
    IN v.k \in PointerKinds =>
         IF v.b[1] \in SeenBefore(j)
           THEN /\ Len(seg) = 1
                /\ IsGet(seg[1])
                /\ calls[j].to - calls[j].from = 1 + Len(seg[1].arg)
                /\ Cardinality(PutsOf(Before(j), MemoId(seg[1]))) = 1
                /\ \A i \in 1..(j - 1) :
                     (calls[i].v = v /\ v.b[1] \notin SeenBefore(i)) =>
                       MemoId(Segment(i)[OwnPut(v.k, Segment(i))])
                         = MemoId(seg[1])
           ELSE /\ Len(seg) >= 2
                /\ InlineHead(pickler.mem, v, seg)
                /\ IsPut(seg[OwnPut(v.k, seg)])
                /\ PutsOf(Before(j), MemoId(seg[OwnPut(v.k, seg)])) = {}
                /\ Cardinality(PutsOf(all, MemoId(seg[OwnPut(v.k, seg)]))) = 1

\* C3 witness: an object handed to addIValue twice
C3_Witness ==
  /\ Len(calls) = 2
  /\ calls[1].v.k = "Dict"
  /\ calls[2].v = calls[1].v

IsAb(v) == v.k = "String" /\ pickler.mem[v.b[1]].b = <<97, 98>>

\* C4 as claimed: whichever two Strings "ab" are handed in, the second is
\* written as the GET 68 00 only
C4_SecondAlwaysGet ==
  (pc = "finished" /\ Len(calls) = 2 /\ IsAb(calls[1].v) /\ IsAb(calls[2].v))
    => pickler.stack_ = <<128, 2, 40, 88, 2, 0, 0, 0, 97, 98, 113, 0,
                          104, 0, 116, 46>>

\* C4 amended: the same String object handed in twice is written as
\* BINUNICODE 2 'a' 'b', BINPUT 0 and then the GET 68 00; two Strings
\* "ab" built separately are each written inline, the second with BINPUT 1
C4_SecondGetIffSameObject ==
  (pc = "finished" /\ Len(calls) = 2 /\ IsAb(calls[1].v) /\ IsAb(calls[2].v))
    => pickler.stack_ =
         <<128, 2, 40, 88, 2, 0, 0, 0, 97, 98, 113, 0>>
           \o (IF calls[1].v = calls[2].v THEN <<104, 0>>
               ELSE <<88, 2, 0, 0, 0, 97, 98, 113, 1>>)
           \o <<116, 46>>

\* C4 witness: the same String "ab" twice, finished
C4_Witness ==
  /\ pc = "finished"
  /\ Len(calls) = 2
  /\ IsAb(calls[1].v)
  /\ calls[2].v = calls[1].v

\* C5: without literal tensors the buffer is PROTO 2 MARK, what the calls
\* wrote in call order, TUPLE, STOP and nothing more; the first value is
\* written as a new Pickler writes it; Int(0) gives 80 02 28 4b 00 74 2e
C5_Framing ==
  (pc = "finished" /\ NoLiteralTensor) =>
    LET n == Len(calls)
        body == IF n = 0 THEN 3 ELSE calls[n].to
    IN /\ SubSeq(pickler.stack_, 1, 3) = <<128, 2, 40>>
       /\ n > 0 => calls[1].from = 3
       /\ \A i \in 1..(n - 1) : calls[i].to = calls[i + 1].from
       /\ SubSeq(pickler.stack_, body + 1, Len(pickler.stack_)) = <<116, 46>>
       /\ n > 0 =>
            \E p0 \in InitialPicklers :
              /\ p0.has_table = pickler.has_table
              /\ SubSeq(pickler.tensor_table_, 1, Len(p0.tensor_table_))
                   = p0.tensor_table_
              /\ SubSeq(pickler.stack_, 4, calls[1].to)
                   = addIValue(p0, calls[1].v).stack_
       /\ (n = 1 /\ calls[1].v = IntV(0)) =>
            pickler.stack_ = <<128, 2, 40, 75, 0, 116, 46>>

\* C5 witness: the session of the single value Int(0), finished
C5_Witness ==
  /\ pc = "finished"
  /\ Len(calls) = 1
  /\ calls[1].v = IntV(0)

Count(prog, k, ops) == Cardinality({i \in 1..k : prog[i].op \in ops})

Closers == {OpCode.TUPLE, OpCode.APPENDS, OpCode.SETITEMS}

\* every close has an open MARK before it, and no MARK is left open
Balanced(prog) ==
  /\ WellFormed(prog)
  /\ \A k \in 1..Len(prog) :
       Count(prog, k, Closers) <= Count(prog, k, {OpCode.MARK})
  /\ Count(prog, Len(prog), Closers) = Count(prog, Len(prog), {OpCode.MARK})

\* the program behind the first STOP, if one was written
KeyProgram ==
  LET main == Instructions(pickler.stack_)
      stop == main[Len(main)].at + 1
  IN InstructionsFrom(pickler.stack_, stop, 12)

\* C6: in the finished stream every MARK is closed by one later TUPLE,
\* APPENDS or SETITEMS, properly nested, and no close is without its MARK
C6_ContainerBalance ==
  pc = "finished" =>
    /\ Balanced(Instructions(pickler.stack_))
    /\ Instructions(pickler.stack_)[Len(Instructions(pickler.stack_))].op
         = OpCode.STOP
    /\ Balanced(KeyProgram)

\* C6 witness: a finished stream with a literal tensor and nested containers
C6_Witness ==
  /\ pc = "finished"
  /\ ~pickler.has_table
  /\ Len(calls) = 2
  /\ calls[1].v = Ptr("List", 7)
  /\ calls[2].v = Ptr("Tuple", 10)

------------------------------------------------------------------------------
(* pushInt alone: a fresh Pickler and up to MaxInts calls of pushInt on    *)
(* int64_t values around the boundaries of int8_t and int32_t              *)

MaxInts == 2

\* int64_t values as 8 little-endian bytes
Ints ==
  {I64(0), I64(1), I64(-1), I64(127), I64(128), I64(-128), I64(-129),
   I64(255), I64(256), I64(-32768), I64(65535),
   I64(2147483647), I64(-2147483647 - 1), I64(-2147483647),
   <<0, 0, 0, 128, 0, 0, 0, 0>>,                  \* 2^31
   <<255, 255, 255, 127, 255, 255, 255, 255>>,    \* -2^31 - 1
   <<5, 0, 0, 0, 1, 0, 0, 0>>,                    \* 2^32 + 5
   <<251, 255, 255, 255, 254, 255, 255, 255>>,    \* -2^32 - 5
   <<127, 0, 0, 0, 0, 0, 0, 128>>,                \* -2^63 + 127
   <<0, 0, 0, 0, 0, 0, 0, 128>>,                  \* -2^63
   <<255, 255, 255, 255, 255, 255, 255, 127>>}    \* 2^63 - 1

InitInt ==
  /\ pc = "int"
  /\ pickler = NewPickler(<<>>, FALSE, <<>>)
  /\ calls = <<>>
  /\ unpickler = NoUnpickler
  /\ pickler2 = NoPickler

PushInt ==
  /\ pc = "int"
  /\ Len(calls) < MaxInts
  /\ \E n \in Ints :
       /\ pickler' = pushInt(pickler, n)
       /\ calls' = Append(calls, [v |-> IntB(n), from |-> Len(pickler.stack_),
                                  to |-> Len(pickler'.stack_)])
  /\ UNCHANGED <<pc, unpickler, pickler2>>

NextInt == PushInt

SpecInt == InitInt /\ [][NextInt]_vars

\* n is the sign extension of its w low bytes: -2^(8w-1) <= n <= 2^(8w-1) - 1
FitsIn(n, w) ==
  \A i \in (w + 1)..8 : n[i] = IF n[w] >= 128 THEN 255 ELSE 0

\* the bytes a call wrote
Written(j) == SubSeq(pickler.stack_, calls[j].from + 1, calls[j].to)

\* C7: pushInt writes BININT1 and one byte iff -128 <= n <= 127, BININT and
\* 4 little-endian bytes iff n is outside that range and within
\* -2^31 .. 2^31 - 1, LONG1 with length 8 and 8 little-endian bytes
\* otherwise; -128 and 127 are written as BININT1, -2^31 and 2^31 - 1 as
\* BININT
C7_IntegerWidth ==
  \A j \in 1..Len(calls) :
    LET n == calls[j].v.b
        w == Written(j)
    IN /\ (w[1] = 75) = FitsIn(n, 1)
       /\ (w[1] = 74) = (~FitsIn(n, 1) /\ FitsIn(n, 4))
       /\ (w[1] = 138) = ~FitsIn(n, 4)
       /\ w[1] = 75 => w = <<75, n[1]>>
       /\ w[1] = 74 => w = <<74, n[1], n[2], n[3], n[4]>>
       /\ w[1] = 138 => w = <<138, 8>> \o n
       /\ n = <<128, 255, 255, 255, 255, 255, 255, 255>> => w = <<75, 128>>
       /\ n = <<127, 0, 0, 0, 0, 0, 0, 0>> => w = <<75, 127>>
       /\ n = <<0, 0, 0, 128, 255, 255, 255, 255>> => w = <<74, 0, 0, 0, 128>>
       /\ n = <<255, 255, 255, 127, 0, 0, 0, 0>>
            => w = <<74, 255, 255, 255, 127>>

\* C7 witness: 2^31 - 1 was written as BININT and then 2^31 as LONG1
C7_Witness ==
  /\ pc = "int"
  /\ Len(calls) = 2
  /\ calls[1].v.b = <<255, 255, 255, 127, 0, 0, 0, 0>>
  /\ calls[2].v.b = <<0, 0, 0, 128, 0, 0, 0, 0>>
  /\ pickler.stack_ = <<74, 255, 255, 255, 127,
                        138, 8, 0, 0, 0, 128, 0, 0, 0, 0>>

------------------------------------------------------------------------------
(* Many memo ids: a fresh Pickler is handed MemoObjs different objects one *)
(* after the other, so that the ids pass 255, and then one of them again   *)

MemoObjs == 257

\* object a is an empty tuple, a one-character string or a one-element
\* IntList
MemoKind(a) ==
  CASE a % 3 = 1 -> "Tuple" [] a % 3 = 2 -> "String" [] OTHER -> "IntList"

MemoMem ==
  [a \in 1..MemoObjs |->
     CASE MemoKind(a) = "Tuple" -> Obj(<<>>, <<>>)
       [] MemoKind(a) = "String" -> Obj(<<97>>, <<>>)
       [] OTHER -> Obj(<<>>, <<IntV(1)>>)]

MemoValue(a) == Ptr(MemoKind(a), a)

\* the objects handed over a second time
MemoAgain == {1, 3, 254, 255, 256, 257}

InitMemo ==
  /\ pc = "memo"
  /\ pickler = NewPickler(MemoMem, FALSE, <<>>)
  /\ calls = <<>>
  /\ unpickler = NoUnpickler
  /\ pickler2 = NoPickler

MemoCall(v) ==
  /\ pickler' = addIValue(pickler, v)
  /\ calls' = Append(calls, [v |-> v, from |-> Len(pickler.stack_),
                             to |-> Len(pickler'.stack_),
                             id0 |-> pickler.memo_id_])
  /\ UNCHANGED <<unpickler, pickler2>>

MemoAddNew ==
  /\ pc = "memo"
  /\ Len(calls) < MemoObjs
  /\ MemoCall(MemoValue(Len(calls) + 1))
  /\ UNCHANGED pc

MemoAddAgain ==
  /\ pc = "memo"
  /\ \E a \in MemoAgain : a <= Len(calls) /\ MemoCall(MemoValue(a))
  /\ pc' = "memo_again"

NextMemo == MemoAddNew \/ MemoAddAgain

SpecMemo == InitMemo /\ [][NextMemo]_vars

\* a PUT or GET instruction of the width that goes with the id
WidthOf(ins, short, long, id) ==
  IF id <= 255 THEN ins.op = short /\ ins.arg = <<id>>
  ELSE ins.op = long /\ ins.arg = <<id % 256, id \div 256, 0, 0>>

\* C8: the n-th PUT written is BINPUT with the one byte n - 1 if
\* n - 1 <= 255 and LONG_BINPUT with n - 1 in 4 little-endian bytes
\* otherwise; a GET is BINGET with one byte if its id is <= 255 and
\* LONG_BINGET with 4 little-endian bytes otherwise, and it carries the
\* number that the PUT of the object carried
C8_MemoWidth ==
  Len(calls) > 0 =>
    LET j == Len(calls)
        seg == Segment(j)
        v == calls[j].v
    IN /\ WellFormed(seg)
       /\ \A i \in 1..Len(seg) :
            /\ IsPut(seg[i]) =>
                 WidthOf(seg[i], OpCode.BINPUT, OpCode.LONG_BINPUT,
                         calls[j].id0
                           + Cardinality({m \in 1..(i - 1) : IsPut(seg[m])}))
            /\ IsGet(seg[i]) =>
                 WidthOf(seg[i], OpCode.BINGET, OpCode.LONG_BINGET,
                         MemoId(seg[i]))
       /\ pc = "memo_again" =>
            /\ Len(seg) = 1
            /\ WidthOf(seg[1], OpCode.BINGET, OpCode.LONG_BINGET,
                       MemoId(Segment(v.b[1])[Len(Segment(v.b[1]))]))
       /\ (pc = "memo" /\ v.k = "IntList" /\ j > 3) =>
            /\ Segment(3)[1].op = OpCode.GLOBAL
            /\ WidthOf(seg[1], OpCode.BINGET, OpCode.LONG_BINGET,
                       MemoId(Segment(3)[2]))

\* C8 witness: ids 255 and 256 were given out, with BINPUT and LONG_BINPUT,
\* and the object with id 256 was then written as LONG_BINGET
C8_Witness ==
  /\ pc = "memo_again"
  /\ Len(calls) = MemoObjs + 1
  /\ calls[Len(calls)].v = MemoValue(256)
  /\ Written(Len(calls)) = <<OpCode.LONG_BINGET, 0, 1, 0, 0>>
  /\ Segment(255)[Len(Segment(255))].op = OpCode.BINPUT
  /\ Segment(255)[Len(Segment(255))].arg = <<255>>
  /\ Segment(256)[Len(Segment(256))].op = OpCode.LONG_BINPUT
  /\ Segment(256)[Len(Segment(256))].arg = <<0, 1, 0, 0>>

------------------------------------------------------------------------------
(* Two Picklers: the second is handed the same values, held at other       *)
(* addresses                                                               *)

\* where the object at address a of Mem lies in Mem2
Moved(a) == (a % Len(Mem)) + 2

\* the address in Mem of the object at address b >= 2 of Mem2
MovedFrom(b) == IF b = 2 THEN Len(Mem) ELSE b - 2

Relocate(v) == IF v.k \in PointerKinds THEN Ptr(v.k, Moved(v.b[1])) ELSE v

\* the objects of Mem at other addresses, in another order, behind one more
\* object, so that the temporaries of the two Picklers lie at different
\* addresses too
Mem2 ==
  [a \in 1..(Len(Mem) + 1) |->
     IF a = 1 THEN Obj(<<120>>, <<>>)
     ELSE LET o == Mem[MovedFrom(a)] IN
          Obj(o.b, [i \in 1..Len(o.e) |-> Relocate(o.e[i])])]

InitDet ==
  /\ pc = "new"
  /\ \E p0 \in InitialPicklers :
       /\ pickler = p0
       /\ pickler2 = NewPickler(Mem2, p0.has_table, p0.tensor_table_)
  /\ calls = <<>>
  /\ unpickler = NoUnpickler

DetStart ==
  /\ pc = "new"
  /\ pickler' = start(pickler)
  /\ pickler2' = start(pickler2)
  /\ pc' = "started"
  /\ UNCHANGED <<calls, unpickler>>

DetStartTuple ==
  /\ pc = "started"
  /\ pickler' = startTuple(pickler)
  /\ pickler2' = startTuple(pickler2)
  /\ pc' = "tuple"
  /\ UNCHANGED <<calls, unpickler>>

DetAddIValue ==
  /\ pc = "tuple"
  /\ Len(calls) < MaxVals
  /\ \E v \in Values :
       /\ pickler' = addIValue(pickler, v)
       /\ pickler2' = addIValue(pickler2, Relocate(v))
       /\ calls' = Append(calls, [v |-> v, from |-> Len(pickler.stack_),
                                  to |-> Len(pickler'.stack_)])
  /\ UNCHANGED <<pc, unpickler>>

DetEndTuple ==
  /\ pc = "tuple"
  /\ pickler' = endTuple(pickler)
  /\ pickler2' = endTuple(pickler2)
  /\ pc' = "ended"
  /\ UNCHANGED <<calls, unpickler>>

DetFinish ==
  /\ pc = "ended"
  /\ pickler' = finish(pickler)
  /\ pickler2' = finish(pickler2)
  /\ pc' = "finished"
  /\ UNCHANGED <<calls, unpickler>>

NextDet ==
  DetStart \/ DetStartTuple \/ DetAddIValue \/ DetEndTuple \/ DetFinish

SpecDet == InitDet /\ [][NextDet]_vars

\* C9: two fresh Picklers handed the same calls on values of the same
\* structure and sharing, held at different addresses, have written the
\* same bytes
C9_ByteDeterminism == pickler.stack_ = pickler2.stack_

\* C9 witness: both finished after a shared object was written twice and a
\* literal tensor once, and no address is a key of both memo maps with the
\* same id
C9_Witness ==
  /\ pc = "finished"
  /\ Len(calls) = 2
  /\ calls[1].v = Ptr("List", 7)
  /\ calls[2].v = Ptr("Tuple", 5)
  /\ ~pickler.has_table
  /\ pickler.memo_id_ > 4
  /\ pickler2.memo_id_ = pickler.memo_id_
  /\ DOMAIN pickler.memo_map_ # DOMAIN pickler2.memo_map_
  /\ \A a \in DOMAIN pickler.memo_map_ \cap DOMAIN pickler2.memo_map_ :
       pickler.memo_map_[a] # pickler2.memo_map_[a]

------------------------------------------------------------------------------
(* The Unpickler alone, over arbitrary bytes: run is taken one instruction *)
(* at a time                                                               *)

MaxInputLen == 3

\* the bytes an input is made of behind PROTO 2: opcodes with operands,
\* characters, a newline, the length 8, zero
DecBytes ==
  {OpCode.MARK, OpCode.STOP, OpCode.BININT1, OpCode.BININT, OpCode.LONG1,
   OpCode.BINUNICODE, OpCode.BINFLOAT, OpCode.GLOBAL, 97, 10, 8, 0}

\* inputs with whole operands, and inputs without PROTO 2
DecWhole ==
  {<<>>, <<128>>, <<128, 3>>, <<46>>,
   <<128, 2, 88, 1, 0, 0, 0, 97, 46>>,
   <<128, 2, 88, 1, 0, 0, 0, 97>>,
   <<128, 2, 88, 0, 0, 0, 0>>,
   <<128, 2, 71, 63, 240, 0, 0, 0, 0, 0, 0, 46>>,
   <<128, 2, 71, 63, 240, 0, 0, 0, 0, 0, 0>>,
   <<128, 2, 138, 8, 1, 2, 3, 4, 5, 6, 7, 8>>,
   <<128, 2, 74, 1, 2, 3, 4>>,
   <<128, 2, 99, 97, 10, 97, 10>>,
   <<128, 2, 99, 97, 10, 97>>,
   <<128, 2, 40, 99>> \o module_name \o <<10>> \o intlist_class \o <<10, 46>>,
   <<128, 2, 40, 99>> \o module_name \o <<10>> \o intlist_class,
   <<128, 2, 40, 99>> \o module_name \o <<10>>}

DecInputs ==
  DecWhole \cup
  {<<OpCode.PROTO, PROTOCOL_VERSION>> \o s :
     s \in UNION {[1..n -> DecBytes] : n \in 0..MaxInputLen}}

InitDec ==
  /\ pc = "decode"
  /\ unpickler \in {NewUnpickler(data, <<>>, past) :
                       data \in DecInputs, past \in PastEnd}
  /\ pickler = NoPickler
  /\ calls = <<>>
  /\ pickler2 = NoPickler

DecProto ==
  /\ pc = "decode"
  /\ unpickler.status = "new"
  /\ unpickler' = runProto(unpickler)
  /\ UNCHANGED <<pc, pickler, calls, pickler2>>

DecStep ==
  /\ pc = "decode"
  /\ unpickler.status = "running"
  /\ unpickler' = runStep(unpickler)
  /\ UNCHANGED <<pc, pickler, calls, pickler2>>

DecResult ==
  /\ pc = "decode"
  /\ unpickler.status = "stopped"
  /\ unpickler' = parseResult(unpickler)
  /\ pc' = "parsed"
  /\ UNCHANGED <<pickler, calls, pickler2>>

NextDec == DecProto \/ DecStep \/ DecResult

SpecDec == InitDec /\ [][NextDec]_vars

\* C10: no byte at or behind the end of the input is read, and the cursor
\* does not pass the end
C10_NoOverRead ==
  /\ unpickler.max_read <= unpickler.end_ptr_
  /\ unpickler.bytes_ <= unpickler.end_ptr_

\* the same for the inputs that never reach readString where the input ends
C10_NoOverReadBeforeEnd ==
  (\A i \in 1..Len(unpickler.input) :
     unpickler.input[i] = OpCode.GLOBAL =>
       /\ AfterNewline(unpickler.input, i) # 0
       /\ AfterNewline(unpickler.input, i) < Len(unpickler.input))
  => C10_NoOverRead

------------------------------------------------------------------------------
(* The Unpickler over streams made of whole instructions, with a tensor    *)
(* table of two tensors                                                    *)

MaxOps == 3

\* GLOBAL with a module and a class name
Global(module, name) == <<OpCode.GLOBAL>> \o module \o <<10>> \o name \o <<10>>

str_pickle == SubSeq(module_name, 1, Len(module_name) - 1)

str_build_intlist == SubSeq(intlist_class, 1, Len(intlist_class) - 1)

str_build_tensor == SubSeq(tensor_class, 1, Len(tensor_class) - 1)

str_IntList == <<73, 110, 116, 76, 105, 115, 116>>

str_TensorID == <<84, 101, 110, 115, 111, 114, 73, 68>>

\* the instructions the streams are made of
OpsTokens ==
  {<<OpCode.MARK>>, <<OpCode.TUPLE>>, <<OpCode.APPENDS>>, <<OpCode.SETITEMS>>,
   <<OpCode.EMPTY_LIST>>, <<OpCode.EMPTY_DICT>>, <<OpCode.EMPTY_TUPLE>>,
   <<OpCode.NEWTRUE>>, <<OpCode.BININT1, 0>>, <<OpCode.BININT1, 1>>,
   <<OpCode.BINPUT, 0>>, <<OpCode.LONG_BINPUT, 0, 0, 0, 0>>,
   <<OpCode.BINGET, 0>>, <<OpCode.NEWOBJ>>, <<OpCode.BUILD>>,
   <<OpCode.REDUCE>>, <<OpCode.STOP>>, <<OpCode.PROTO>>,
   Global(str_pickle, str_build_intlist), Global(str_pickle, str_build_tensor),
   Global(str_main, str_IntList)}

RECURSIVE Flatten(_)
Flatten(seqs) ==
  IF seqs = <<>> THEN <<>> ELSE seqs[1] \o Flatten(SubSeq(seqs, 2, Len(seqs)))

\* the bytes a stream may start with
HeaderBytes == {OpCode.PROTO, 2, 3, OpCode.MARK, OpCode.STOP}

\* the memo ids of the streams that bind and fetch
MemoIds == {0, 1, 5}

PutOf(id) == {<<OpCode.BINPUT, id>>, <<OpCode.LONG_BINPUT, id, 0, 0, 0>>}

GetOf(id) == {<<OpCode.BINGET, id>>, <<OpCode.LONG_BINGET, id, 0, 0, 0>>}

\* True is bound to one id, 7 to another or the same, and an id is fetched
MemoInputs ==
  UNION {{<<OpCode.PROTO, PROTOCOL_VERSION, OpCode.NEWTRUE>> \o p1
            \o <<OpCode.BININT1, 7>> \o p2 \o g :
            p1 \in PutOf(i), p2 \in PutOf(j), g \in GetOf(k)} :
         i \in MemoIds, j \in MemoIds, k \in MemoIds}

\* what is on top of the stack when NEWOBJ and then EMPTY_LIST are read
TagTokens ==
  {<<OpCode.BININT1, 0>>, <<OpCode.BININT1, 1>>, <<OpCode.BININT1, 2>>,
   <<OpCode.NEWTRUE>>, Global(str_main, str_IntList),
   Global(str_main, str_TensorID), Global(str_pickle, str_build_intlist),
   Global(str_pickle, str_build_tensor)}

NewObjInputs ==
  {<<OpCode.PROTO, PROTOCOL_VERSION>> \o t
     \o <<OpCode.EMPTY_TUPLE, OpCode.NEWOBJ, OpCode.EMPTY_LIST>> :
     t \in TagTokens}

OpsInputs ==
  {<<OpCode.PROTO, PROTOCOL_VERSION>> \o Flatten(t) :
     t \in UNION {[1..n -> OpsTokens] : n \in 0..MaxOps}}
  \cup UNION {[1..n -> HeaderBytes] : n \in 1..3}
  \cup MemoInputs \cup NewObjInputs

\* the tensor table handed to the Unpickler
OpsTable == <<1, 2>>

InitOps ==
  /\ pc = "decode"
  /\ unpickler \in {NewUnpickler(data, OpsTable, <<0, 0>>) : data \in OpsInputs}
  /\ pickler = NoPickler
  /\ calls = <<>>
  /\ pickler2 = NoPickler

SpecOps == InitOps /\ [][NextDec]_vars

\* the stacks and the memo table of the Unpickler
Stacks(u) == <<u.stack_, u.marks_, u.memo_table_>>

C11_Step ==
  /\ (/\ unpickler.status = "new"
      /\ \/ Len(unpickler.input) >= 1 /\ unpickler.input[1] # 128
         \/ Len(unpickler.input) >= 2 /\ unpickler.input[2] # 2)
     => /\ unpickler'.status = "error"
        /\ Stacks(unpickler') = <<<<>>, <<>>, <<>>>>
        /\ unpickler'.bytes_ <= 2
  /\ (/\ unpickler.status = "running"
      /\ unpickler.bytes_ < unpickler.end_ptr_
      /\ unpickler.input[unpickler.bytes_ + 1] = 128)
     => /\ unpickler'.status = "error"
        /\ Stacks(unpickler') = Stacks(unpickler)

\* C11: run of a stream whose first byte is not PROTO or whose second byte
\* is not 2 ends in an error with nothing executed, and a PROTO read as an
\* opcode later in the stream ends in an error
C11_ProtocolCheck == [][C11_Step]_vars

\* C11 witness: PROTO 2, MARK were executed and a second PROTO was refused
C11_Witness ==
  /\ unpickler.status = "error"
  /\ Len(unpickler.input) >= 4
  /\ SubSeq(unpickler.input, 1, 4) = <<128, 2, 40, 128>>
  /\ unpickler.bytes_ = 4
  /\ unpickler.marks_ = <<0>>

\* C12: when STOP was read with a MARK still open, parse_ivalue_list ends in
\* an error and returns no values
C12_UnclosedMark ==
  (pc = "parsed" /\ unpickler.marks_ # <<>>) => unpickler.status = "error"

\* the streams with an open MARK at STOP that parse_ivalue_list accepts
C12_AcceptedWithOpenMark ==
  /\ pc = "parsed"
  /\ unpickler.input = <<128, 2, 40, 41, 46>>
  /\ unpickler.marks_ = <<0>>
  /\ unpickler.status = "done"
  /\ unpickler.result = <<>>

\* the opcode the next step of run reads, -1 at the end of the input
NextOpcode(u) ==
  IF u.status = "running" /\ u.bytes_ < u.end_ptr_
    THEN u.input[u.bytes_ + 1] ELSE -1

C13_Step ==
  /\ (/\ NextOpcode(unpickler) \in
           {OpCode.TUPLE, OpCode.APPENDS, OpCode.SETITEMS}
      /\ unpickler.marks_ = <<>>)
     => unpickler'.status = "error"
  /\ (/\ NextOpcode(unpickler) \in
           {OpCode.BINPUT, OpCode.LONG_BINPUT, OpCode.NEWOBJ, OpCode.BUILD,
            OpCode.REDUCE}
      /\ unpickler.stack_ = <<>>)
     => unpickler'.status = "error"
  /\ (/\ NextOpcode(unpickler) \in {OpCode.BUILD, OpCode.REDUCE}
      /\ Len(unpickler.stack_) = 1)
     => unpickler'.status = "error"

\* C13: TUPLE, APPENDS or SETITEMS read with no open mark, and BINPUT,
\* LONG_BINPUT, NEWOBJ, BUILD or REDUCE read with fewer stack entries than
\* they use, end the decode in an error; no element of an empty vector is
\* accessed
C13_UnbalancedClose == [][C13_Step]_vars

\* the id the PUT or GET at the cursor of u carries
OperandId(u) ==
  IF NextOpcode(u) \in {OpCode.BINPUT, OpCode.BINGET}
    THEN u.input[u.bytes_ + 2]
    ELSE ToNat(SubSeq(u.input, u.bytes_ + 2, u.bytes_ + 5))

HasOperand(u) ==
  IF NextOpcode(u) \in {OpCode.BINPUT, OpCode.BINGET}
    THEN u.bytes_ + 2 <= u.end_ptr_
    ELSE u.bytes_ + 5 <= u.end_ptr_ /\ u.input[u.bytes_ + 5] < 128

\* the map from the operands of the PUTs executed before offset stop to the
\* top of the stack at the latest of them, r being the decode so far
RECURSIVE BoundBefore(_, _, _)
BoundBefore(r, stop, map) ==
  IF r.status # "running" \/ r.bytes_ >= stop THEN map
  ELSE LET after == runStep(r)
           bind == /\ NextOpcode(r) \in {OpCode.BINPUT, OpCode.LONG_BINPUT}
                   /\ after.status = "running"
       IN BoundBefore(after, stop,
                      IF bind THEN (OperandId(r) :> back(r.stack_)) @@ map
                      ELSE map)

Bound(u) ==
  BoundBefore(runProto(NewUnpickler(u.input, u.tensor_table_, u.past_end)),
              u.bytes_, <<>>)

C14_Step ==
  /\ (/\ NextOpcode(unpickler) \in {OpCode.BINPUT, OpCode.LONG_BINPUT}
      /\ HasOperand(unpickler)
      /\ unpickler.stack_ # <<>>)
     => /\ unpickler'.status = "running"
        /\ unpickler'.stack_ = unpickler.stack_
  /\ (/\ NextOpcode(unpickler) \in {OpCode.BINGET, OpCode.LONG_BINGET}
      /\ HasOperand(unpickler))
     => IF OperandId(unpickler) \in DOMAIN Bound(unpickler)
          THEN /\ unpickler'.status = "running"
               /\ unpickler'.stack_ =
                    Append(unpickler.stack_,
                           Bound(unpickler)[OperandId(unpickler)])
          ELSE unpickler'.status = "error"

\* C14: a PUT with operand i binds i to the top of the stack and leaves the
\* stack as it is; a GET with operand i pushes the value bound to i by the
\* latest PUT with operand i, and ends in an error when no PUT had operand i
C14_MemoAsMap == [][C14_Step]_vars

C14_DenseStep ==
  (\A i \in DOMAIN unpickler.memo_table_ :
     i - 1 \in DOMAIN Bound(unpickler)
       /\ Bound(unpickler)[i - 1] = unpickler.memo_table_[i])
  => C14_Step

\* the same when the operand of every PUT so far was the number of PUTs
\* before it
C14_MemoAsMapWhenDense == [][C14_DenseStep]_vars

------------------------------------------------------------------------------
(* Tensors, globals and IntLists in the session of Spec *)

\* the tensor handles in a value
RECURSIVE TensorsIn(_, _)
TensorsIn(mem, v) ==
  IF v.k = "Tensor" THEN {v.b[1]}
  ELSE IF v.k \notin PointerKinds THEN {}
  ELSE UNION {TensorsIn(mem, mem[v.b[1]].e[i]) : i \in 1..Len(mem[v.b[1]].e)}

\* instruction i of prog is GLOBAL with the text, or a GET of the id that the
\* PUT behind an earlier GLOBAL with the text carries
IsGlobalOf(prog, i, text) ==
  \/ prog[i].op = OpCode.GLOBAL /\ prog[i].arg = text
  \/ /\ IsGet(prog[i])
     /\ \E m \in 1..(i - 2) :
          /\ prog[m].op = OpCode.GLOBAL /\ prog[m].arg = text
          /\ IsPut(prog[m + 1])
          /\ MemoId(prog[m + 1]) = MemoId(prog[i])

\* what the decoder returns for the reference to index idx of the table
DecodeRef(idx, table) ==
  parse_ivalue_list(
    NewUnpickler(<<128, 2, 40>> \o Global(str_pickle, str_build_tensor)
                   \o <<40, 75, idx, 116, 82, 116, 46>>, table, <<0, 0>>))

C15_Step ==
  /\ (pickler.has_table /\ Len(calls') = Len(calls) + 1) =>
       LET old == pickler.tensor_table_
           new == pickler'.tensor_table_
           v == calls'[Len(calls')].v
           prog == Instructions(pickler'.stack_)
           heads == {i \in 1..Len(prog) :
                       /\ prog[i].at >= Len(pickler.stack_)
                       /\ IsGlobalOf(prog, i, module_name \o tensor_class)}
       IN /\ Len(new) = Len(old) + Cardinality(heads)
          /\ SubSeq(new, 1, Len(old)) = old
          /\ v.k = "Tensor" => Cardinality(heads) = 1
          /\ \A i \in heads :
               LET idx == Len(old) + Cardinality({h \in heads : h < i})
                   a == IF prog[i].op = OpCode.GLOBAL THEN i + 2 ELSE i + 1
               IN /\ prog[i].op = OpCode.GLOBAL => IsPut(prog[i + 1])
                  /\ a + 3 <= Len(prog)
                  /\ prog[a].op = OpCode.MARK
                  /\ prog[a + 1].op = OpCode.BININT1
                  /\ prog[a + 1].arg = <<idx>>
                  /\ prog[a + 2].op = OpCode.TUPLE
                  /\ prog[a + 3].op = OpCode.REDUCE
                  /\ new[idx + 1] \in TensorsIn(pickler.mem, v)
                  /\ v.k = "Tensor" => new[idx + 1] = v.b[1]
                  /\ DecodeRef(idx, new).status = "done"
                  /\ DecodeRef(idx, new).result = <<TensorV(new[idx + 1])>>
  /\ Len(calls') = Len(calls) => pickler'.tensor_table_ = pickler.tensor_table_
  /\ (pc' = "parsed" /\ pickler.has_table /\ unpickler'.status = "done") =>
       \A j \in 1..Len(calls) :
         calls[j].v.k = "Tensor" => unpickler'.result[j] = calls[j].v

\* C15: with a tensor side table, each emission of a tensor appends that
\* tensor to the table and writes the global build_tensor_from_id, MARK, the
\* index of the new entry as an Int, TUPLE, REDUCE; nothing else changes the
\* table; decoding the reference with the table returns the tensor
C15_TensorReferences == [][C15_Step]_vars

\* C15 witness: a table that began with one entry; the same tensor was
\* written at the top level and again inside a list, and decoded
C15_Witness ==
  /\ pc = "parsed"
  /\ pickler.tensor_table_ = <<3, 1, 1>>
  /\ Len(calls) = 2
  /\ calls[1].v = TensorV(1)
  /\ calls[2].v = Ptr("List", 7)
  /\ unpickler.status = "done"
  /\ unpickler.result[1] = TensorV(1)

\* the tensors the calls emit, in the order of emission: the values are
\* walked depth first, an object met again is not walked again, a tensor met
\* again is emitted again
RECURSIVE Walk(_, _, _)
Walk(mem, vs, st) ==
  IF vs = <<>> THEN st
  ELSE LET v == Head(vs) IN
       IF v.k = "Tensor"
         THEN Walk(mem, Tail(vs), [st EXCEPT !.out = Append(@, v.b[1])])
       ELSE IF v.k \notin PointerKinds \/ v.b[1] \in st.seen
         THEN Walk(mem, Tail(vs), st)
       ELSE Walk(mem, Tail(vs),
                 Walk(mem, mem[v.b[1]].e,
                      [st EXCEPT !.seen = @ \cup {v.b[1]}]))

Emissions ==
  Walk(pickler.mem, [j \in 1..Len(calls) |-> calls[j].v],
       [seen |-> {}, out |-> <<>>]).out

\* a sequence without the later occurrences of its elements
RECURSIVE FirstOnly(_)
FirstOnly(seq) ==
  IF seq = <<>> THEN <<>>
  ELSE LET init == SubSeq(seq, 1, Len(seq) - 1) IN
       IF \E i \in 1..Len(init) : init[i] = seq[Len(seq)]
         THEN FirstOnly(init)
         ELSE Append(FirstOnly(init), seq[Len(seq)])

\* the record of a tensor: the element count in 8 bytes, then the storage
Record(h) ==
  <<Tensors[h].numel, 0, 0, 0, 0, 0, 0, 0>> \o Tensors[h].storage

\* the finished buffer is the main program, and behind its STOP the key
\* program and the records of the tensors listed, or nothing if none is
Trailer(listed) ==
  LET main == Instructions(pickler.stack_)
      stop == main[Len(main)].at + 1
      keys == KeyProgram
      n == Len(listed)
  IN /\ main[Len(main)].op = OpCode.STOP
     /\ IF n = 0 THEN Len(pickler.stack_) = stop
        ELSE /\ Len(keys) = n + 4
             /\ keys[1].op = OpCode.PROTO /\ keys[1].arg = <<2>>
             /\ keys[2].op = OpCode.MARK
             /\ \A k \in 1..n :
                  LET text == to_string(Tensors[listed[k]].storage_key) IN
                  /\ keys[2 + k].op = OpCode.BINUNICODE
                  /\ keys[2 + k].arg = <<Len(text), 0, 0, 0>> \o text
             /\ keys[n + 3].op = OpCode.TUPLE
             /\ keys[n + 4].op = OpCode.STOP
             /\ SubSeq(pickler.stack_, keys[n + 4].at + 2, Len(pickler.stack_))
                  = Flatten([k \in 1..n |-> Record(listed[k])])

\* C16 as stated: the keys and the records list every tensor once, in the
\* order in which the tensors were first visited
C16_TrailerOncePerTensor ==
  (pc = "finished" /\ ~pickler.has_table) => Trailer(FirstOnly(Emissions))

\* C16: after finish without a side table the buffer is the main program
\* ending in STOP and, if a tensor was emitted, PROTO 2 MARK, one BINUNICODE
\* key per emission of a tensor in the order of emission (a tensor emitted
\* twice is listed twice), TUPLE STOP, and one record per key in the same
\* order; nothing follows the first STOP when no tensor was emitted
C16_TrailerPerEmission ==
  (pc = "finished" /\ ~pickler.has_table) => Trailer(Emissions)

\* C16 witness: a tensor emitted inside a list and then at the top level
\* again
C16_Witness ==
  /\ pc = "finished"
  /\ ~pickler.has_table
  /\ Len(calls) = 2
  /\ calls[1].v = Ptr("List", 7)
  /\ calls[2].v = TensorV(1)
  /\ Emissions = <<1, 1>>
  /\ Len(KeyProgram) = 6

\* the session of the one value IntList([1, 2, 3]) on a new Pickler
OneIntList ==
  /\ pc \in {"finished", "parsed"}
  /\ Len(calls) = 1
  /\ calls[1].v.k = "IntList"
  /\ pickler.mem[calls[1].v.b[1]].e = <<IntV(1), IntV(2), IntV(3)>>

\* the opcodes of a program, LONG_BINPUT taken as BINPUT
Opcodes(prog) ==
  [i \in 1..Len(prog) |->
     IF IsPut(prog[i]) THEN OpCode.BINPUT ELSE prog[i].op]

DecodedOneIntList ==
  /\ unpickler.status = "done"
  /\ Len(unpickler.result) = 1
  /\ unpickler.result[1].k = "IntList"
  /\ unpickler.mem[unpickler.result[1].b[1]].e = <<IntV(1), IntV(2), IntV(3)>>

\* C17 as stated: between the MARK and the TUPLE of the top level the session
\* wrote GLOBAL, MARK, EMPTY_LIST, PUT, MARK, BININT1 1, BININT1 2,
\* BININT1 3, APPENDS, TUPLE, REDUCE, PUT, and the stream decodes to
\* [IntList([1, 2, 3])]
C17_IntListWithPutAfterEmptyList ==
  OneIntList =>
    /\ Opcodes(Segment(1)) = <<99, 40, 93, 113, 40, 75, 75, 75, 101, 116, 82, 113>>
    /\ pc = "parsed" => DecodedOneIntList

\* C17: the session wrote GLOBAL torch.jit._pickle build_intlist, PUT 0,
\* MARK, EMPTY_LIST, MARK, BININT1 1, BININT1 2, BININT1 3, APPENDS, TUPLE,
\* REDUCE, PUT 1 (no PUT behind EMPTY_LIST), and the stream decodes to
\* [IntList([1, 2, 3])]
C17_IntListSequence ==
  OneIntList =>
    /\ Opcodes(Segment(1)) = <<99, 113, 40, 93, 40, 75, 75, 75, 101, 116, 82, 113>>
    /\ Segment(1)[1].arg = module_name \o intlist_class
    /\ Segment(1)[2].arg = <<0>>
    /\ Segment(1)[6].arg = <<1>>
    /\ Segment(1)[7].arg = <<2>>
    /\ Segment(1)[8].arg = <<3>>
    /\ Segment(1)[12].arg = <<1>>
    /\ calls[1].from = 3
    /\ SubSeq(pickler.stack_, calls[1].to + 1, Len(pickler.stack_)) = <<116, 46>>
    /\ pc = "parsed" => DecodedOneIntList

\* C17 witness: the stream of the one IntList was written and decoded
C17_Witness ==
  /\ OneIntList
  /\ pc = "parsed"
  /\ DecodedOneIntList

\* the texts of the globals that the emission of a value starts with or,
\* for a literal tensor, holds
GlobalsOf(v) ==
  CASE v.k = "IntList" -> {module_name \o intlist_class}
    [] v.k = "Tensor" /\ pickler.has_table -> {module_name \o tensor_class}
    [] v.k = "Tensor" /\ ~pickler.has_table ->
         {rebuild_tensor_v2, OrderedDict,
          str_torch_nl \o Tensors[v.b[1]].scalar_type \o str_Storage_nl}
    [] OTHER -> {}

\* C18: a global text is written with GLOBAL at most once, with a PUT right
\* behind it; an emission of a text written before is one GET of the id of
\* that PUT; no two PUTs of the stream, of globals or of values, carry the
\* same id
C18_GlobalMemoization ==
  LET prog == Instructions(pickler.stack_) IN
  /\ \A i \in 1..Len(prog) :
       prog[i].op = OpCode.GLOBAL =>
         /\ i < Len(prog) /\ IsPut(prog[i + 1])
         /\ \A m \in 1..(i - 1) :
              prog[m].op = OpCode.GLOBAL => prog[m].arg # prog[i].arg
  /\ \A i \in 1..Len(prog) : \A m \in 1..(i - 1) :
       (IsPut(prog[i]) /\ IsPut(prog[m])) => MemoId(prog[i]) # MemoId(prog[m])
  /\ \A j \in 1..Len(calls) :
       LET v == calls[j].v
           inside == {i \in 1..Len(prog) :
                        prog[i].at >= calls[j].from /\ prog[i].at < calls[j].to}
       IN (v.k = "Tensor" \/ (v.k = "IntList" /\ v.b[1] \notin SeenBefore(j)))
            => \A text \in GlobalsOf(v) :
                 LET uses == {i \in inside : IsGlobalOf(prog, i, text)} IN
                 /\ Cardinality(uses) = 1
                 /\ \A i \in uses :
                      (prog[i].op = OpCode.GLOBAL) =
                        (\A m \in 1..(i - 1) :
                           ~(prog[m].op = OpCode.GLOBAL /\ prog[m].arg = text))

\* C18 witness: three globals written by a literal tensor inside a list,
\* behind the global of an IntList, and fetched by the same tensor again
C18_Witness ==
  /\ pc = "finished"
  /\ ~pickler.has_table
  /\ Len(calls) = 2
  /\ calls[1].v = Ptr("List", 7)
  /\ calls[2].v = TensorV(1)
  /\ Cardinality(DOMAIN pickler.memoized_strings_map_) = 4
  /\ Cardinality({i \in 1..Len(Segment(2)) : IsGet(Segment(2)[i])}) >= 3

\* the top of the stack of u is the class INTLIST, as the tag of a legacy
\* stream behind NEWOBJ or as the class marker of GLOBAL
IntListOnTop(u) ==
  /\ u.stack_ # <<>>
  /\ \/ /\ u.last_opcode_ = OpCode.NEWOBJ
        /\ back(u.stack_) = IntV(PicklerClass.INTLIST)
     \/ back(u.stack_) = ClassEntry(PicklerClass.INTLIST)

\* EMPTY_LIST has pushed one new empty object of the kind
PushedEmpty(kind) ==
  /\ unpickler'.status = "running"
  /\ Len(unpickler'.stack_) = Len(unpickler.stack_) + 1
  /\ SubSeq(unpickler'.stack_, 1, Len(unpickler.stack_)) = unpickler.stack_
  /\ back(unpickler'.stack_).k = kind
  /\ unpickler'.mem[back(unpickler'.stack_).b[1]] = Obj(<<>>, <<>>)

C19_Step ==
  NextOpcode(unpickler) = OpCode.EMPTY_LIST =>
    IF IntListOnTop(unpickler) THEN PushedEmpty("IntList")
    ELSE PushedEmpty("List")

\* C19: EMPTY_LIST pushes one entry in every state: an empty IntList if the
\* tag on top behind NEWOBJ or the class marker on top is INTLIST, an empty
\* List in every other case
C19_EmptyList == [][C19_Step]_vars

C19_AgreedStep ==
  (/\ unpickler.last_opcode_ = OpCode.NEWOBJ =>
        /\ unpickler.stack_ # <<>>
        /\ back(unpickler.stack_) = IntV(PicklerClass.INTLIST)
   /\ unpickler.stack_ # <<>> =>
        back(unpickler.stack_) # ClassEntry(PicklerClass.TENSOR))
  => C19_Step

\* the same where behind NEWOBJ the integer tag INTLIST is on top, and no
\* class marker TENSOR is on top
C19_EmptyListWithoutOtherTags == [][C19_AgreedStep]_vars

------------------------------------------------------------------------------
(* The Unpickler over the streams of older writers: an IntList or a tensor *)
(* reference built with NEWOBJ and BUILD, inside the tuple of the top level *)

MaxXs == 2

\* the elements of the IntLists, of every width
XsValues ==
  {I64(1), I64(-1), I64(300), <<0, 0, 0, 128, 0, 0, 0, 0>>}

\* the bytes of the Int instruction for n
IntToken(n) == pushInt(NoPickler, n).stack_

LegacyCases ==
  {[kind |-> "IntList", xs |-> xs, k |-> 0, before |-> b] :
     xs \in UNION {[1..n -> XsValues] : n \in 0..MaxXs},
     b \in {<<>>, <<OpCode.NEWTRUE>>}}
  \cup {[kind |-> "Tensor", xs |-> <<>>, k |-> k, before |-> b] :
          k \in 0..(Len(OpsTable) - 1), b \in {<<>>, <<OpCode.NEWTRUE>>}}

\* GLOBAL __main__ IntList, EMPTY_TUPLE, NEWOBJ, EMPTY_LIST, MARK, xs,
\* APPENDS, BUILD; GLOBAL __main__ TensorID, EMPTY_TUPLE, NEWOBJ, Int k, BUILD
LegacyGroup(c) ==
  IF c.kind = "IntList"
    THEN Global(str_main, str_IntList)
           \o <<OpCode.EMPTY_TUPLE, OpCode.NEWOBJ, OpCode.EMPTY_LIST,
                OpCode.MARK>>
           \o Flatten([i \in 1..Len(c.xs) |-> IntToken(c.xs[i])])
           \o <<OpCode.APPENDS, OpCode.BUILD>>
    ELSE Global(str_main, str_TensorID)
           \o <<OpCode.EMPTY_TUPLE, OpCode.NEWOBJ>> \o IntToken(I64(c.k))
           \o <<OpCode.BUILD>>

\* GLOBAL torch.jit._pickle build_intlist, MARK, EMPTY_LIST, MARK, xs,
\* APPENDS, TUPLE, REDUCE; GLOBAL torch.jit._pickle build_tensor_from_id,
\* MARK, Int k, TUPLE, REDUCE
ModernGroup(c) ==
  IF c.kind = "IntList"
    THEN Global(str_pickle, str_build_intlist)
           \o <<OpCode.MARK, OpCode.EMPTY_LIST, OpCode.MARK>>
           \o Flatten([i \in 1..Len(c.xs) |-> IntToken(c.xs[i])])
           \o <<OpCode.APPENDS, OpCode.TUPLE, OpCode.REDUCE>>
    ELSE Global(str_pickle, str_build_tensor)
           \o <<OpCode.MARK>> \o IntToken(I64(c.k))
           \o <<OpCode.TUPLE, OpCode.REDUCE>>

\* PROTO 2, MARK and what precedes the group
Opening(c) == <<OpCode.PROTO, PROTOCOL_VERSION, OpCode.MARK>> \o c.before

Closing == <<OpCode.TUPLE, OpCode.STOP>>

InitLegacy ==
  /\ pc = "decode"
  /\ \E c \in LegacyCases :
       /\ calls = <<c>>
       /\ unpickler = NewUnpickler(Opening(c) \o LegacyGroup(c) \o Closing,
                                   OpsTable, <<0, 0>>)
  /\ pickler = NoPickler
  /\ pickler2 = NoPickler

SpecLegacy == InitLegacy /\ [][NextDec]_vars

\* the Unpickler behind the last instruction of the modern group
AfterModern(c) ==
  run(NewUnpickler(Opening(c) \o ModernGroup(c), OpsTable, <<0, 0>>))

\* the value the group stands for is on top of the stack of u
Rebuilt(u, c) ==
  /\ u.stack_ # <<>>
  /\ IF c.kind = "IntList"
       THEN /\ back(u.stack_).k = "IntList"
            /\ u.mem[back(u.stack_).b[1]].e = [i \in 1..Len(c.xs) |-> IntB(c.xs[i])]
       ELSE back(u.stack_) = TensorV(OpsTable[c.k + 1])

\* C20: behind the legacy group the value stack and the mark stack are as
\* behind the modern group: what was there before, and on top one
\* IntList(xs), respectively the tensor at index k of the table; the class
\* tag is gone; and the whole stream decodes
C20_LegacyAsModern ==
  LET c == calls[1]
      m == AfterModern(c)
  IN /\ unpickler.status \in {"new", "running", "stopped", "done"}
     /\ (pc = "decode"
           /\ unpickler.bytes_ = Len(unpickler.input) - Len(Closing)) =>
          /\ m.bytes_ = Len(m.input)
          /\ unpickler.marks_ = m.marks_
          /\ unpickler.marks_ = <<0>>
          /\ Len(unpickler.stack_) = Len(m.stack_)
          /\ Len(unpickler.stack_) = Len(c.before) + 1
          /\ \A i \in 1..Len(unpickler.stack_) :
               SameValue(unpickler.mem, unpickler.stack_[i], m.mem, m.stack_[i])
          /\ Rebuilt(unpickler, c)
          /\ Rebuilt(m, c)
     /\ pc = "parsed" =>
          /\ unpickler.status = "done"
          /\ Len(unpickler.result) = Len(c.before) + 1

\* C20 witness: the legacy IntList of two elements of different widths,
\* behind another value, was rebuilt
C20_Witness ==
  /\ pc = "decode"
  /\ calls[1].kind = "IntList"
  /\ calls[1].xs = <<I64(300), <<0, 0, 0, 128, 0, 0, 0, 0>>>>
  /\ calls[1].before = <<OpCode.NEWTRUE>>
  /\ unpickler.bytes_ = Len(unpickler.input) - Len(Closing)
  /\ unpickler.last_opcode_ = OpCode.BUILD
  /\ Rebuilt(unpickler, calls[1])

------------------------------------------------------------------------------
(* Termination of Unpickler::run *)

\* the caller has the bytes and the tensor table, and no Unpickler yet
InitRun ==
  /\ pc = "input"
  /\ unpickler = NoUnpickler
  /\ pickler = NoPickler
  /\ calls = <<>>
  /\ pickler2 = NoPickler

\* the Unpickler is constructed over a stream
RunInput ==
  /\ pc = "input"
  /\ \E data \in OpsInputs : unpickler' = NewUnpickler(data, OpsTable, <<0, 0>>)
  /\ pc' = "decode"
  /\ UNCHANGED <<pickler, calls, pickler2>>

NextRun == RunInput \/ NextDec

\* a turn of run, or the return to parse_ivalue_list, can be taken: this is
\* ENABLED <<NextDec>>_vars, every such step changing status, bytes_ or pc
CanTurn ==
  pc = "decode" /\ unpickler.status \in {"new", "running", "stopped"}

\* run is one sequential loop: a turn that can be taken is taken, which is
\* WF_vars(NextDec) with ENABLED written out
SpecRun ==
  /\ InitRun /\ [][NextRun]_vars
  /\ (<>[]CanTurn => []<><<NextDec>>_vars)

BeginsWithProto2(u) ==
  Len(u.input) >= 2 /\ SubSeq(u.input, 1, 2) = <<OpCode.PROTO, PROTOCOL_VERSION>>

\* one turn of the loop of run, the ends being the statuses in ends
TurnOfRun(ends) ==
  /\ unpickler.status = "running" =>
       /\ unpickler'.status \in {"running"} \cup ends
       /\ unpickler'.status = "running" =>
            unpickler'.bytes_ >= unpickler.bytes_ + 1
       /\ NextOpcode(unpickler) = OpCode.STOP =>
            /\ unpickler'.status = "stopped"
            /\ unpickler'.bytes_ = unpickler.bytes_ + 1
            /\ unpickler'.max_read = unpickler'.bytes_
            /\ Stacks(unpickler') = Stacks(unpickler)
       /\ unpickler.bytes_ >= unpickler.end_ptr_ =>
            unpickler'.status = "error"
  /\ unpickler.status = "stopped" =>
       /\ unpickler'.bytes_ = unpickler.bytes_
       /\ unpickler'.max_read = unpickler.max_read

\* C21: for an input that begins with PROTO 2, run ends: it returns at the
\* first STOP read as an opcode, no byte behind that STOP being read then or
\* later, or it aborts with an error; a turn that goes on has moved the
\* cursor forward by one byte or more; at the end of the input without STOP
\* the turn is an error
C21_Termination ==
  /\ [][TurnOfRun({"stopped", "error"})]_vars
  /\ (pc = "decode" /\ BeginsWithProto2(unpickler))
       ~> (unpickler.status \in {"stopped", "error"})

\* the same when the turn whose behaviour is undefined counts as an end of run
C21_TerminationOrUndefined ==
  /\ [][TurnOfRun({"stopped", "error", "ub"})]_vars
  /\ (pc = "decode" /\ BeginsWithProto2(unpickler))
       ~> (unpickler.status \in {"stopped", "error", "ub"})

\* run was left at a STOP that has instructions behind it
C21_StoppedBeforeTrailer ==
  /\ unpickler.status = "stopped"
  /\ unpickler.bytes_ < unpickler.end_ptr_
  /\ unpickler.max_read = unpickler.bytes_

\* a turn of run on a stream that begins with PROTO 2 had no defined outcome
C21_UndefinedTurn ==
  /\ BeginsWithProto2(unpickler)
  /\ unpickler.status = "ub"
  /\ unpickler.input = <<OpCode.PROTO, PROTOCOL_VERSION, OpCode.TUPLE>>

------------------------------------------------------------------------------
(* APPENDS and SETITEMS over the value stack *)

\* instructions of a stream before its APPENDS or SETITEMS
MaxBody == 4

\* the instructions that make targets, marks and entries, or take entries away
CloseTokens ==
  {<<OpCode.EMPTY_DICT>>, <<OpCode.EMPTY_LIST>>, <<OpCode.MARK>>,
   <<OpCode.NEWTRUE>>, <<OpCode.BININT1, 1>>, <<OpCode.NEWOBJ>>,
   Global(str_pickle, str_build_intlist)}

\* PROTO 2, nothing or an Int that stays at the bottom of the stack, the
\* body, APPENDS or SETITEMS, and STOP
CloseInputs ==
  {<<OpCode.PROTO, PROTOCOL_VERSION>> \o bottom \o Flatten(t)
     \o <<closer, OpCode.STOP>> :
     bottom \in {<<>>, <<OpCode.BININT1, 7>>},
     t \in UNION {[1..n -> CloseTokens] : n \in 0..MaxBody},
     closer \in {OpCode.APPENDS, OpCode.SETITEMS}}

InitClose ==
  /\ pc = "decode"
  /\ unpickler \in {NewUnpickler(data, OpsTable, <<0, 0>>) : data \in CloseInputs}
  /\ pickler = NoPickler
  /\ calls = <<>>
  /\ pickler2 = NoPickler

SpecClose == InitClose /\ [][NextDec]_vars

\* the kinds of target the closing instruction at the cursor of u takes
TargetKinds(u) ==
  IF NextOpcode(u) = OpCode.SETITEMS THEN {"Dict"} ELSE {"List", "IntList"}

\* the objects of mem other than the one at address a are as in mem2
SameButAt(mem, mem2, a) ==
  /\ Len(mem2) = Len(mem)
  /\ \A i \in 1..Len(mem) : i # a => mem2[i] = mem[i]

\* what is asked of the turn that reads APPENDS or SETITEMS with a mark open,
\* when always holds or else when only the cases of given hold
ClosingTurn(given) ==
  (/\ NextOpcode(unpickler) \in {OpCode.APPENDS, OpCode.SETITEMS}
   /\ unpickler.marks_ # <<>>
   /\ given)
  => LET m == back(unpickler.marks_)
         n == Len(unpickler.stack_)
     IN /\ unpickler'.status \in {"running", "error"}
        /\ (\/ m = 0
            \/ m > n
            \/ NextOpcode(unpickler) = OpCode.SETITEMS /\ (n - m) % 2 = 1
            \/ m \in 1..n /\ unpickler.stack_[m].k \notin TargetKinds(unpickler))
           => unpickler'.status = "error"
        /\ unpickler'.status = "running" =>
             /\ unpickler'.marks_ = pop_back(unpickler.marks_)
             /\ unpickler'.stack_ = SubSeq(unpickler.stack_, 1, m)
             /\ unpickler'.memo_table_ = unpickler.memo_table_
             /\ SameButAt(unpickler.mem, unpickler'.mem,
                          unpickler.stack_[m].b[1])

\* C22: APPENDS and SETITEMS with topmost mark m access no stack index
\* outside 0..size-1; an odd number of entries above the mark of SETITEMS,
\* m = 0, and a target at stack[m-1] that is no Dict (SETITEMS) and no List
\* or IntList (APPENDS) end in an error; on success the stack is cut to m
\* entries and the entries below the target are as before
C22_ClosingInBounds == [][ClosingTurn(TRUE)]_vars

\* the entries above the mark are values, an even number of them for
\* SETITEMS, and the target, where there is one, is a value
EvenValues(u) ==
  LET m == back(u.marks_)
      n == Len(u.stack_)
  IN /\ \A i \in 1..n : i >= m => u.stack_[i].k # "Class"
     /\ (NextOpcode(u) = OpCode.SETITEMS /\ m \in 1..n) => (n - m) % 2 = 0

\* the same for the turns with an even number of values above the mark
C22_ClosingInBoundsWhenEven ==
  [][ClosingTurn(unpickler.marks_ # <<>> /\ EvenValues(unpickler))]_vars

\* SETITEMS with one entry above the mark of a Dict has read stack_[size]
C22_OddSetItems ==
  /\ unpickler.input =
       <<OpCode.PROTO, PROTOCOL_VERSION, OpCode.EMPTY_DICT, OpCode.MARK,
         OpCode.NEWTRUE, OpCode.SETITEMS, OpCode.STOP>>
  /\ unpickler.status = "ub"
  /\ unpickler.why = "stack_[i + 1] behind the end"

\* SETITEMS has put one pair into the Dict above the Int at the bottom
C22_PairSet ==
  /\ unpickler.input =
       <<OpCode.PROTO, PROTOCOL_VERSION, OpCode.BININT1, 7, OpCode.EMPTY_DICT,
         OpCode.MARK, OpCode.BININT1, 1, OpCode.NEWTRUE, OpCode.SETITEMS,
         OpCode.STOP>>
  /\ unpickler.bytes_ = unpickler.end_ptr_ - 1
  /\ unpickler.status = "running"
  /\ Len(unpickler.stack_) = 2
  /\ unpickler.stack_[1] = IntV(7)
  /\ unpickler.mem[unpickler.stack_[2].b[1]].e = <<IntV(1), BoolV(TRUE)>>

------------------------------------------------------------------------------
(* Lists and Dicts that are bound in the memo table while they are empty *)

\* <<kind, address in m1, address in m2>> of the objects of x and of the
\* objects of y at the same places
RECURSIVE Occurrences(_, _, _, _)
Occurrences(m1, x, m2, y) ==
  IF x.k \notin PointerKinds \/ y.k # x.k THEN {}
  ELSE LET e1 == m1[x.b[1]].e
           e2 == m2[y.b[1]].e
       IN {<<x.k, x.b[1], y.b[1]>>}
            \cup UNION {Occurrences(m1, e1[i], m2, e2[i]) :
                          i \in DOMAIN e1 \cap DOMAIN e2}

\* the objects of the session and what they were decoded to
Occ ==
  UNION {Occurrences(pickler.mem, calls[i].v,
                     unpickler.mem, unpickler.result[i]) :
           i \in DOMAIN calls \cap DOMAIN unpickler.result}

\* no None among the values of the session
NoNone ==
  \A i \in 1..Len(calls) : ~Contains(pickler.mem, calls[i].v, "None")

\* C23: a List or Dict is bound by the PUT behind EMPTY_LIST / EMPTY_DICT
\* while it is empty and filled by APPENDS / SETITEMS afterwards; what a GET
\* of its id pushes is that same container with all its elements: every
\* occurrence of one List or Dict of the session is decoded to one and the
\* same container, which is the one in the memo table under the id the
\* Pickler gave it, and its contents are those of the original
C23_MemoAliasing ==
  pc = "parsed" =>
    /\ (NoNone /\ NoLiteralTensor) => unpickler.status = "done"
    /\ unpickler.status = "done" =>
         /\ Len(unpickler.result) = Len(calls)
         /\ \A i \in 1..Len(calls) :
              SameValue(pickler.mem, calls[i].v,
                        unpickler.mem, unpickler.result[i])
         /\ \A p \in Occ, q \in Occ :
              (p[1] \in {"List", "Dict"} /\ p[1] = q[1] /\ p[2] = q[2])
                => p[3] = q[3]
         /\ \A p \in Occ :
              p[1] \in {"List", "Dict"} =>
                /\ p[2] \in DOMAIN pickler.memo_map_
                /\ pickler.memo_map_[p[2]] < Len(unpickler.memo_table_)
                /\ unpickler.memo_table_[pickler.memo_map_[p[2]] + 1]
                     = Ptr(p[1], p[3])

\* C23 witness: the List [s1, s1, 300] was added twice, EMPTY_LIST PUT MARK
\* ... APPENDS and then a GET, and both elements of the result are the one
\* List of three elements
C23_Witness ==
  /\ pc = "parsed"
  /\ unpickler.status = "done"
  /\ Len(calls) = 2
  /\ calls[1].v = Ptr("List", 4)
  /\ calls[2].v = Ptr("List", 4)
  /\ unpickler.result[1] = unpickler.result[2]
  /\ Len(unpickler.mem[unpickler.result[2].b[1]].e) = 3
  /\ LET prog == Instructions(pickler.stack_) IN
       \E k \in 1..Len(prog), a \in 1..Len(prog), g \in 1..Len(prog) :
         /\ k + 1 < a /\ a < g
         /\ prog[k].op = OpCode.EMPTY_LIST
         /\ IsPut(prog[k + 1])
         /\ prog[a].op = OpCode.APPENDS
         /\ IsGet(prog[g])
         /\ MemoId(prog[g]) = MemoId(prog[k + 1])

\* the same for the Dict {1: s1, s2: 1.0}, added before and inside the Tuple
\* (l9, d6, l9) with its two occurrences of the empty List
C23_WitnessDict ==
  /\ pc = "parsed"
  /\ unpickler.status = "done"
  /\ Len(calls) = 2
  /\ calls[1].v = Ptr("Dict", 6)
  /\ calls[2].v = Ptr("Tuple", 10)
  /\ unpickler.mem[unpickler.result[2].b[1]].e[2] = unpickler.result[1]
  /\ unpickler.mem[unpickler.result[2].b[1]].e[1]
       = unpickler.mem[unpickler.result[2].b[1]].e[3]
  /\ Len(unpickler.mem[unpickler.result[1].b[1]].e) = 4

====
